---------------------------- MODULE Spec2Model ----------------------------
(***************************************************************************)
(* happy-server: the socket command handlers of sessionUpdateHandler.ts    *)
(* (update-metadata, update-state, message, session-alive, session-end)    *)
(* and the HTTP routes POST /v1/account/settings, POST /v1/account/profile *)
(* and the blob routes of accountRoutes.ts and POST /v1/sessions and       *)
(* GET /v2/sessions of sessionRoutes.ts, over the relational store and the *)
(* object store they share, with the activity cache and the event router   *)
(* they call.                                                              *)
(*                                                                         *)
(* Every handler is an async function: it runs without preemption up to    *)
(* its next `await` of a storage call, so one action of the model is one   *)
(* storage call together with the synchronous code that follows it up to   *)
(* the next storage call (or the handler's return).  req[r].pc names the   *)
(* storage call request r is waiting for.  Each storage call is atomic in  *)
(* the store and may throw instead.                                        *)
(***************************************************************************)
EXTENDS Integers, Sequences, FiniteSets

VARIABLES
    created,      \* Session rows inserted by POST /v1/sessions: [id, accountId, tag, metadata, metadataVersion, agentStateVersion];
                  \* for GET /v2/sessions, the rows it lists: [id, accountId, updatedAt]
    session,      \* Session rows: id -> [accountId, metadata, metadataVersion, agentState, agentStateVersion, lastMessageAt, lastActiveAt, active]
    account,      \* Account rows: id -> [settings, settingsVersion, username, firstName]
    userSeq,      \* account-scope sequence counter, per account
    sessionSeq,   \* session-scope sequence counter, per session
    messages,     \* SessionMessage rows
    emitted,      \* durable updates handed to eventRouter.emitUpdate
    lock,         \* receiveMessageLock of each connection: holder first, then the waiters in arrival order
    req,          \* the requests: arguments, position, locals, replies
    issued,       \* history: per scope, the values the allocator returned, in the order of its increments
    now,          \* Date.now(), in milliseconds
    activity,     \* the activity cache: session id -> [lastSeenAt, lastFlushedAt, flushedOn]
    ephemerals,   \* ephemeral events handed to eventRouter.emitEphemeral
    registered,   \* the connection registry: the connections that are connected
    busUp,        \* the broadcast backend of the event bus is reachable
    routed,       \* per emitted event, what the event router did with it: [id, durable, user, filter, skip, orphan, to, published, peerTo]
    process,      \* this server process: [running, flushed], flushed being the sessions its shutdown wrote
    sessionBlob,  \* SessionBlob rows: [id, sessionId, accountId, mimeType, size, s3Key]
    s3            \* the object store: [key, body, mimeType, size]

\* The presence side of the state, and all of it.
presence == <<now, activity, ephemerals>>
\* The blobs: their rows and their objects.
blobstore == <<sessionBlob, s3>>
vars == <<created, session, account, userSeq, sessionSeq, messages, emitted, lock, req, issued,
          now, activity, ephemerals, registered, busUp, routed, process, sessionBlob, s3>>

---------------------------------------------------------------------------
(* Bounds *)

\* Number of requests (socket commands and HTTP calls) received in one run.
MaxReqs == 2
\* Number of times the clock is seen to advance in one run.
MaxTicks == 1

---------------------------------------------------------------------------
(* The world *)

Accounts == {"a1", "a2"}
Sessions == {"s1", "s2"}
\* s1 belongs to a1, s2 belongs to another account.
SessionOwner == [s \in Sessions |-> IF s = "s1" THEN "a1" ELSE "a2"]
\* The live connections; both are authenticated as a1 (userId of sessionUpdateHandler).
Conns == {"c1", "c2"}
ConnUser == [c \in Conns |-> "a1"]
\* The server never interprets a payload (metadata, agent state, settings): every
\* request carries its own opaque string, the first one the empty string.
Payloads == <<"", "p2", "p3", "p4", "p5">>
Payload(r) == Payloads[r]
ExpectedVersions == {0, 1}
\* The accounts whose devices call the HTTP API in the runs explored.
HttpUsers == {"a1"}
\* The tags POST /v1/sessions is called with, and the ids the store gives new rows.
Tags == {"t1"}
NewIds == <<"n1", "n2", "n3", "n4", "n5">>
\* localId: a client string, or absent ("null").
LocalIds == {"null", "m1"}
\* The encrypted content of a message.
MessageBodies == {"x"}
Reqs == 1..MaxReqs

None == "-"
\* The username of a profile request: absent, null, or a name that passes the schema.
Usernames == {"u1", "u2"}
ProfileUsernames == {None, "null"} \cup Usernames

\* randomUUID() gives every upload a blob id of its own.
BlobIds == <<"b1", "b2", "b3", "b4", "b5">>
\* The encrypted bytes of an upload.
BlobBodies == <<"d1", "d2", "d3", "d4", "d5">>
ALLOWED_MIME_TYPES == {"image/jpeg", "image/png", "image/gif", "image/webp"}
\* What an upload brings: mime type header (None when absent), size header, body.
\* "huge" stands for a body of more than MAX_BLOB_SIZE bytes.
UploadShapes(r) ==
    {[mimeType |-> "image/png", sizeHeader |-> IF r % 2 = 1 THEN "7px" ELSE "7", body |-> BlobBodies[r]],
     [mimeType |-> None, sizeHeader |-> "7", body |-> BlobBodies[r]],
     [mimeType |-> "text/plain", sizeHeader |-> "7", body |-> BlobBodies[r]],
     [mimeType |-> "image/png", sizeHeader |-> "abc", body |-> BlobBodies[r]],
     [mimeType |-> "image/png", sizeHeader |-> "0", body |-> BlobBodies[r]],
     [mimeType |-> "image/png", sizeHeader |-> "7", body |-> ""],
     [mimeType |-> "image/png", sizeHeader |-> "7", body |-> "huge"]}

\* The heartbeat cutoff: 1000 * 60 * 10 milliseconds.
TenMinutes == 1000 * 60 * 10
\* The shortest time between two durable writes of one session's activity.
DebounceInterval == 1000 * 30
\* The clock is observed once per debounce interval, from StartTime on.
TickStep == DebounceInterval
StartTime == 2 * TenMinutes
\* data.time of a heartbeat or session-end received at clock reading n: older than the
\* cutoff, exactly at the cutoff, and in the future.
Times(n) == {n - TenMinutes - 1, n - TenMinutes, n + TenMinutes}
\* The session ids a session-end names: those of the two sessions, and one that no
\* session has.
SessionIds == Sessions \cup {"s0"}
\* data.thinking of a heartbeat: the handler passes the flag on without looking at
\* it (an absent one as false); the heartbeats of a run alternate it.
Thinking(r) == r % 2 = 1

\* The processes of the deployment: the commands and HTTP calls explored are served
\* by p1; p2 is a peer that receives p1's events over the event bus.
Procs == {"p1", "p2"}
ThisProc == "p1"
\* Every connection there is: the two of Conns, which send the commands, and
\* connections that only listen.
AllConns == Conns \cup {"c3", "c4", "c5", "c6", "c7"}
ConnAccount == [c \in AllConns |-> IF c \in {"c3", "c7"} THEN "a2" ELSE "a1"]
AccountScoped == [type |-> "account-scoped", sessionId |-> None]
SessionScoped(sid) == [type |-> "session-scoped", sessionId |-> sid]
ConnScope == [c \in AllConns |->
                CASE c \in {"c1", "c3", "c5"} -> AccountScoped
                  [] c \in {"c2", "c6", "c7"} -> SessionScoped("s1")
                  [] OTHER -> SessionScoped("s2")]
ConnProc == [c \in AllConns |-> IF c \in {"c5", "c6", "c7"} THEN "p2" ELSE "p1"]
\* The connections that disconnect in the runs explored.
Leavers == Conns

NoSnap == [value |-> None, version |-> -1]
NoReq == [kind |-> "none", pc |-> "idle", conn |-> None, user |-> None, sid |-> None,
          ev |-> -1, value |-> None, localId |-> None, snap |-> NoSnap,
          updSeq |-> 0, msgSeq |-> 0, replies |-> <<>>, wrote |-> FALSE, failed |-> FALSE,
          bad |-> None, noack |-> FALSE, time |-> 0, t |-> 0, thinking |-> FALSE,
          at |-> 0, looked |-> FALSE, username |-> None, firstName |-> None, taken |-> FALSE,
          blobId |-> None, mimeType |-> None, sizeHeader |-> None, body |-> None, after |-> {},
          cursor |-> None, cursorSessionId |-> "", limit |-> 0, changedSince |-> 0,
          resultSessions |-> <<>>, hasNext |-> FALSE, nextCursor |-> "null", first |-> 0]

\* No ActivityRecord yet: nothing seen, nothing flushed.
NoActivity == [lastSeenAt |-> 0, lastFlushedAt |-> 0, flushedOn |-> 0]

Reply(result, version, value) == [result |-> result, version |-> version, value |-> value]
ErrorReply == Reply("error", -1, None)

InitTables ==
    /\ session = [s \in Sessions |->
                    [accountId |-> SessionOwner[s], metadata |-> "m0", metadataVersion |-> 0,
                     agentState |-> "null", agentStateVersion |-> 0, lastMessageAt |-> "null",
                     lastActiveAt |-> 0, active |-> TRUE]]
    /\ account = [a \in Accounts |-> [settings |-> "null", settingsVersion |-> 0, username |-> "null", firstName |-> "null"]]
    /\ userSeq = [a \in Accounts |-> 0]
    /\ sessionSeq = [s \in Sessions |-> 0]
    /\ messages = {}
    /\ emitted = {}
    /\ lock = [c \in Conns |-> <<>>]
    /\ req = [r \in Reqs |-> NoReq]
    /\ issued = [k \in Accounts \cup Sessions |-> <<>>]
    /\ now = StartTime
    /\ activity = [s \in Sessions |-> NoActivity]
    /\ ephemerals = {}
    /\ registered = AllConns
    /\ busUp = TRUE
    /\ routed = {}
    /\ process = [running |-> TRUE, flushed |-> {}]

\* No blob has been uploaded yet.
InitStore == created = {} /\ InitTables

Init == InitStore /\ sessionBlob = {} /\ s3 = {}

---------------------------------------------------------------------------
(* Requests *)

\* The connections a command can arrive on.
Connected == Conns \cap registered

\* Requests take the slots 1, 2, ... in the order they arrive.
\* A process that is shutting down receives nothing more.
CanReceive(r) == process.running /\ req[r].pc = "idle" /\ \A q \in Reqs : q < r => req[q].pc # "idle"

SetReq(r, rec) == req' = [req EXCEPT ![r] = rec]

\* The handler returns, after calling the acknowledgement callback with `reply`.
Finish(r, reply) == SetReq(r, [req[r] EXCEPT !.pc = "done", !.replies = Append(@, reply)])
\* The handler returns without calling the callback.
FinishSilent(r) == SetReq(r, [req[r] EXCEPT !.pc = "done"])
\* A storage call threw and the handler's catch block replied.
FinishThrown(r, reply) ==
    SetReq(r, [req[r] EXCEPT !.pc = "done", !.failed = TRUE, !.replies = Append(@, reply)])

---------------------------------------------------------------------------
(* Storage: db.session / db.account, and the sequence allocator *)

\* A lookup by session id alone.
SessionFound_anyowner(sid, user) == sid \in Sessions

\* db.session.findUnique({ where: { id: sid, accountId: userId } }) returns a row.
SessionFound(sid, user) == sid \in Sessions /\ session[sid].accountId = user

\* The value an atomic increment-and-return yields from the stored counter.
NextSeq(cur) == cur + 1

\* An allocator that stores 1 instead of incrementing the stored counter.
allocateUserSeq_set(a) ==
    /\ userSeq' = [userSeq EXCEPT ![a] = 1]
    /\ issued' = [issued EXCEPT ![a] = Append(@, 1)]

\* allocateUserSeq(userId): one atomic increment of the account's counter.
allocateUserSeq(a) ==
    /\ userSeq' = [userSeq EXCEPT ![a] = NextSeq(@)]
    /\ issued' = [issued EXCEPT ![a] = Append(@, NextSeq(userSeq[a]))]

\* allocateSessionSeq(sid): one atomic increment of the session's counter.
allocateSessionSeq(s) ==
    /\ sessionSeq' = [sessionSeq EXCEPT ![s] = NextSeq(@)]
    /\ issued' = [issued EXCEPT ![s] = Append(@, NextSeq(sessionSeq[s]))]

\* A durable update as built by buildUpdateSessionUpdate / buildUpdateAccountUpdate /
\* buildNewMessageUpdate and handed to eventRouter.emitUpdate by request r.
Update(kind, user, sid, seq, version, value, skip, r) ==
    [kind |-> kind, user |-> user, sid |-> sid, seq |-> seq, version |-> version,
     value |-> value, skip |-> skip, id |-> r]

---------------------------------------------------------------------------
(* The event router, over the connection registry and the event bus *)

\* A filter for every connection of the account.
AllInterestedInSession_everyone(sid) == [type |-> "all-user-authenticated-connections", sessionId |-> None]

\* recipientFilter of the emit calls.
AllInterestedInSession(sid) == [type |-> "all-interested-in-session", sessionId |-> sid]
AllUserAuthenticatedConnections == [type |-> "all-user-authenticated-connections", sessionId |-> None]

\* A filter that lets every scope through.
Matches_anyscope(c, user, filter) == ConnAccount[c] = user

\* Connection c is a recipient of an event of account `user` sent with `filter`.
Matches(c, user, filter) ==
    /\ ConnAccount[c] = user
    /\ filter.type = "all-interested-in-session" =>
          \/ ConnScope[c].type = "account-scoped"
          \/ ConnScope[c] = SessionScoped(filter.sessionId)

\* ConnectionRegistry.resolve(filter, excludeConnection) in process p.
Resolve(p, user, filter, skip) ==
    {c \in registered : ConnProc[c] = p /\ Matches(c, user, filter) /\ c # skip}

\* A router that gives up the local delivery when the publish fails.
Route_alldown(id, durable, user, filter, skip) ==
    [id |-> id, durable |-> durable, user |-> user, filter |-> filter, skip |-> skip,
     orphan |-> skip # None /\ skip \notin registered,
     to |-> IF busUp THEN Resolve(ThisProc, user, filter, skip) ELSE {},
     published |-> busUp,
     peerTo |-> IF busUp THEN UNION {Resolve(p, user, filter, skip) : p \in Procs \ {ThisProc}}
                ELSE {}]

\* What the router does with one event: it delivers to the local matches, and
\* publishes on the bus, whose peers deliver to their own matches; a publish that
\* fails is dropped and reaches no peer.  orphan: the connection to skip had
\* already left the registry.
Route(id, durable, user, filter, skip) ==
    [id |-> id, durable |-> durable, user |-> user, filter |-> filter, skip |-> skip,
     orphan |-> skip # None /\ skip \notin registered,
     to |-> Resolve(ThisProc, user, filter, skip),
     published |-> busUp,
     peerTo |-> IF busUp THEN UNION {Resolve(p, user, filter, skip) : p \in Procs \ {ThisProc}}
                ELSE {}]

\* The socket of connection c closes: the registry drops the connection.
Disconnect(c) ==
    /\ c \in registered
    /\ registered' = registered \ {c}
    /\ UNCHANGED <<created, session, account, userSeq, sessionSeq, messages, emitted, lock, req, issued,
                   now, activity, ephemerals, busUp, routed, process, blobstore>>

\* The broadcast backend becomes unreachable, and reachable again.
BusFail ==
    /\ busUp /\ busUp' = FALSE
    /\ UNCHANGED <<created, session, account, userSeq, sessionSeq, messages, emitted, lock, req, issued,
                   now, activity, ephemerals, registered, routed, process, blobstore>>

BusRecover ==
    /\ ~busUp /\ busUp' = TRUE
    /\ UNCHANGED <<created, session, account, userSeq, sessionSeq, messages, emitted, lock, req, issued,
                   now, activity, ephemerals, registered, routed, process, blobstore>>

\* eventRouter.emitUpdate({ userId, payload, recipientFilter, skipSenderConnection }).
emitUpdate(e, filter) ==
    /\ emitted' = emitted \cup {e}
    /\ routed' = routed \cup {Route(e.id, TRUE, e.user, filter, e.skip)}

\* eventRouter.emitEphemeral({ userId, payload, recipientFilter }).
emitEphemeral(e, filter) ==
    /\ ephemerals' = ephemerals \cup {e}
    /\ routed' = routed \cup {Route(e.id, FALSE, e.user, filter, None)}

---------------------------------------------------------------------------
(* socket.on('update-metadata') *)

UpdateMetadataReceive(r) ==
    /\ CanReceive(r)
    /\ \E c \in Connected, sid \in Sessions, ev \in ExpectedVersions :
          SetReq(r, [NoReq EXCEPT !.kind = "update-metadata", !.pc = "findUnique",
                                  !.user = ConnUser[c], !.sid = sid, !.ev = ev, !.value = Payload(r)])
    /\ UNCHANGED <<created, session, account, userSeq, sessionSeq, messages, emitted, lock, issued, presence, registered, busUp, routed, process, blobstore>>

\* A reply that echoes the request instead of the row read.
UpdateMetadataStale_own(r) == Reply("version-mismatch", req[r].ev, req[r].value)

\* The reply of the early version check.
UpdateMetadataStale(r) ==
    Reply("version-mismatch", session[req[r].sid].metadataVersion, session[req[r].sid].metadata)

\* findUnique returns; the session and version checks follow.
UpdateMetadataFind(r) ==
    /\ req[r].kind = "update-metadata" /\ req[r].pc = "findUnique"
    /\ IF ~SessionFound(req[r].sid, req[r].user)
         THEN FinishSilent(r)
         ELSE IF session[req[r].sid].metadataVersion # req[r].ev
         THEN Finish(r, UpdateMetadataStale(r))
         ELSE SetReq(r, [req[r] EXCEPT !.pc = "updateMany",
                            !.snap = [value |-> session[req[r].sid].metadata,
                                      version |-> session[req[r].sid].metadataVersion]])
    /\ UNCHANGED <<created, session, account, userSeq, sessionSeq, messages, emitted, lock, issued, presence, registered, busUp, routed, process, blobstore>>

\* A where clause that names the row only.
UpdateMetadataWhere_any(sid, ev) == TRUE

\* The where clause of the conditional write holds of the stored row.
UpdateMetadataWhere(sid, ev) == session[sid].metadataVersion = ev

\* A write that stores the version it was given.
UpdateMetadataData_same(ev) == ev

\* The version the conditional write stores.
UpdateMetadataData(ev) == ev + 1

\* The reply when the conditional write matched no row.
UpdateMetadataConflict(r) == Reply("version-mismatch", req[r].snap.version, req[r].snap.value)

\* The handler without its `count === 0` check.
UpdateMetadataWrite_nocheck(r) ==
    /\ req[r].kind = "update-metadata" /\ req[r].pc = "updateMany"
    /\ IF UpdateMetadataWhere(req[r].sid, req[r].ev)
         THEN /\ session' = [session EXCEPT ![req[r].sid].metadata = req[r].value,
                                            ![req[r].sid].metadataVersion = UpdateMetadataData(req[r].ev)]
              /\ SetReq(r, [req[r] EXCEPT !.pc = "allocateUserSeq", !.wrote = TRUE])
         ELSE /\ SetReq(r, [req[r] EXCEPT !.pc = "allocateUserSeq"])
              /\ UNCHANGED session
    /\ UNCHANGED <<created, account, userSeq, sessionSeq, messages, emitted, lock, issued, presence, registered, busUp, routed, process, blobstore>>

\* updateMany runs in the store; the count check follows.
UpdateMetadataWrite(r) ==
    /\ req[r].kind = "update-metadata" /\ req[r].pc = "updateMany"
    /\ IF UpdateMetadataWhere(req[r].sid, req[r].ev)
         THEN /\ session' = [session EXCEPT ![req[r].sid].metadata = req[r].value,
                                            ![req[r].sid].metadataVersion = UpdateMetadataData(req[r].ev)]
              /\ SetReq(r, [req[r] EXCEPT !.pc = "allocateUserSeq", !.wrote = TRUE])
         ELSE /\ Finish(r, UpdateMetadataConflict(r))
              /\ UNCHANGED session
    /\ UNCHANGED <<created, account, userSeq, sessionSeq, messages, emitted, lock, issued, presence, registered, busUp, routed, process, blobstore>>

\* A handler that takes its write back when the publish fails.
UpdateMetadataEmit_undo(r) ==
    /\ req[r].kind = "update-metadata" /\ req[r].pc = "allocateUserSeq"
    /\ allocateUserSeq(req[r].user)
    /\ emitUpdate(Update("update-session-metadata", req[r].user, req[r].sid,
                                        userSeq'[req[r].user], req[r].ev + 1, req[r].value, None, r),
                  AllInterestedInSession(req[r].sid))
    /\ SetReq(r, [req[r] EXCEPT !.pc = "done", !.updSeq = userSeq'[req[r].user],
                      !.replies = Append(@, Reply("success", req[r].ev + 1, req[r].value))])
    /\ IF busUp THEN UNCHANGED session
         ELSE session' = [session EXCEPT ![req[r].sid].metadata = req[r].snap.value,
                                         ![req[r].sid].metadataVersion = req[r].snap.version]
    /\ UNCHANGED <<created, account, sessionSeq, messages, lock, presence, registered, busUp, process, blobstore>>

\* allocateUserSeq returns; the update is emitted and the success reply sent.
UpdateMetadataEmit(r) ==
    /\ req[r].kind = "update-metadata" /\ req[r].pc = "allocateUserSeq"
    /\ allocateUserSeq(req[r].user)
    /\ emitUpdate(Update("update-session-metadata", req[r].user, req[r].sid,
                                        userSeq'[req[r].user], req[r].ev + 1, req[r].value, None, r),
                  AllInterestedInSession(req[r].sid))
    /\ SetReq(r, [req[r] EXCEPT !.pc = "done", !.updSeq = userSeq'[req[r].user],
                      !.replies = Append(@, Reply("success", req[r].ev + 1, req[r].value))])
    /\ UNCHANGED <<created, session, account, sessionSeq, messages, lock, presence, registered, busUp, process, blobstore>>

\* A storage call throws; the catch block replies { result: 'error' }.
UpdateMetadataCatch(r) ==
    /\ req[r].kind = "update-metadata"
    /\ req[r].pc \in {"findUnique", "updateMany", "allocateUserSeq"}
    /\ FinishThrown(r, ErrorReply)
    /\ UNCHANGED <<created, session, account, userSeq, sessionSeq, messages, emitted, lock, issued, presence, registered, busUp, routed, process, blobstore>>

---------------------------------------------------------------------------
(* socket.on('update-state') *)

UpdateStateReceive(r) ==
    /\ CanReceive(r)
    /\ \E c \in Connected, sid \in Sessions, ev \in ExpectedVersions :
          SetReq(r, [NoReq EXCEPT !.kind = "update-state", !.pc = "findUnique",
                                  !.user = ConnUser[c], !.sid = sid, !.ev = ev, !.value = Payload(r)])
    /\ UNCHANGED <<created, session, account, userSeq, sessionSeq, messages, emitted, lock, issued, presence, registered, busUp, routed, process, blobstore>>

\* The reply of the early version check.
UpdateStateStale(r) ==
    Reply("version-mismatch", session[req[r].sid].agentStateVersion, session[req[r].sid].agentState)

\* findUnique returns; the session and version checks follow.
UpdateStateFind(r) ==
    /\ req[r].kind = "update-state" /\ req[r].pc = "findUnique"
    /\ IF ~SessionFound(req[r].sid, req[r].user)
         THEN Finish(r, ErrorReply)
         ELSE IF session[req[r].sid].agentStateVersion # req[r].ev
         THEN Finish(r, UpdateStateStale(r))
         ELSE SetReq(r, [req[r] EXCEPT !.pc = "updateMany",
                            !.snap = [value |-> session[req[r].sid].agentState,
                                      version |-> session[req[r].sid].agentStateVersion]])
    /\ UNCHANGED <<created, session, account, userSeq, sessionSeq, messages, emitted, lock, issued, presence, registered, busUp, routed, process, blobstore>>

\* The where clause of the conditional write.
UpdateStateWhere(sid, ev) == session[sid].agentStateVersion = ev

\* The reply when the conditional write matched no row.
UpdateStateConflict(r) == Reply("version-mismatch", req[r].snap.version, req[r].snap.value)

\* A write of agentState that bumps the metadata version as well.
UpdateStateWrite_both(r) ==
    /\ req[r].kind = "update-state" /\ req[r].pc = "updateMany"
    /\ IF UpdateStateWhere(req[r].sid, req[r].ev)
         THEN /\ session' = [session EXCEPT ![req[r].sid].agentState = req[r].value,
                                            ![req[r].sid].agentStateVersion = req[r].ev + 1,
                                            ![req[r].sid].metadataVersion = @ + 1]
              /\ SetReq(r, [req[r] EXCEPT !.pc = "allocateUserSeq", !.wrote = TRUE])
         ELSE /\ Finish(r, UpdateStateConflict(r))
              /\ UNCHANGED session
    /\ UNCHANGED <<created, account, userSeq, sessionSeq, messages, emitted, lock, issued, presence, registered, busUp, routed, process, blobstore>>

\* updateMany runs in the store; the count check follows.
UpdateStateWrite(r) ==
    /\ req[r].kind = "update-state" /\ req[r].pc = "updateMany"
    /\ IF UpdateStateWhere(req[r].sid, req[r].ev)
         THEN /\ session' = [session EXCEPT ![req[r].sid].agentState = req[r].value,
                                            ![req[r].sid].agentStateVersion = req[r].ev + 1]
              /\ SetReq(r, [req[r] EXCEPT !.pc = "allocateUserSeq", !.wrote = TRUE])
         ELSE /\ Finish(r, UpdateStateConflict(r))
              /\ UNCHANGED session
    /\ UNCHANGED <<created, account, userSeq, sessionSeq, messages, emitted, lock, issued, presence, registered, busUp, routed, process, blobstore>>

\* allocateUserSeq returns; the update is emitted and the success reply sent.
\* An update that carries the version the client expected.
UpdateStateEmit_stale(r) ==
    /\ req[r].kind = "update-state" /\ req[r].pc = "allocateUserSeq"
    /\ allocateUserSeq(req[r].user)
    /\ emitUpdate(Update("update-session-state", req[r].user, req[r].sid,
                                        userSeq'[req[r].user], req[r].ev, req[r].value, None, r),
                  AllInterestedInSession(req[r].sid))
    /\ SetReq(r, [req[r] EXCEPT !.pc = "done", !.updSeq = userSeq'[req[r].user],
                      !.replies = Append(@, Reply("success", req[r].ev + 1, req[r].value))])
    /\ UNCHANGED <<created, session, account, sessionSeq, messages, lock, presence, registered, busUp, process, blobstore>>

\* allocateUserSeq returns; the update is emitted and the success reply sent.
UpdateStateEmit(r) ==
    /\ req[r].kind = "update-state" /\ req[r].pc = "allocateUserSeq"
    /\ allocateUserSeq(req[r].user)
    /\ emitUpdate(Update("update-session-state", req[r].user, req[r].sid,
                                        userSeq'[req[r].user], req[r].ev + 1, req[r].value, None, r),
                  AllInterestedInSession(req[r].sid))
    /\ SetReq(r, [req[r] EXCEPT !.pc = "done", !.updSeq = userSeq'[req[r].user],
                      !.replies = Append(@, Reply("success", req[r].ev + 1, req[r].value))])
    /\ UNCHANGED <<created, session, account, sessionSeq, messages, lock, presence, registered, busUp, process, blobstore>>

\* A storage call throws; the catch block replies { result: 'error' }.
UpdateStateCatch(r) ==
    /\ req[r].kind = "update-state"
    /\ req[r].pc \in {"findUnique", "updateMany", "allocateUserSeq"}
    /\ FinishThrown(r, ErrorReply)
    /\ UNCHANGED <<created, session, account, userSeq, sessionSeq, messages, emitted, lock, issued, presence, registered, busUp, routed, process, blobstore>>

---------------------------------------------------------------------------
(* app.post('/v1/account/settings') *)

\* JavaScript's `v || null` on a string or null.
OrNull(v) == IF v = "" THEN "null" ELSE v

SettingsReceive(r) ==
    /\ CanReceive(r)
    /\ \E u \in HttpUsers, ev \in ExpectedVersions :
          SetReq(r, [NoReq EXCEPT !.kind = "settings", !.pc = "findUnique",
                                  !.user = u, !.ev = ev, !.value = Payload(r)])
    /\ UNCHANGED <<created, session, account, userSeq, sessionSeq, messages, emitted, lock, issued, presence, registered, busUp, routed, process, blobstore>>

\* The reply of the early version check.
SettingsStale(r) ==
    Reply("version-mismatch", account[req[r].user].settingsVersion, account[req[r].user].settings)

\* findUnique returns; the account and version checks follow.
SettingsFind(r) ==
    /\ req[r].kind = "settings" /\ req[r].pc = "findUnique"
    /\ IF req[r].user \notin Accounts
         THEN Finish(r, ErrorReply)
         ELSE IF account[req[r].user].settingsVersion # req[r].ev
         THEN Finish(r, SettingsStale(r))
         ELSE SetReq(r, [req[r] EXCEPT !.pc = "updateMany",
                            !.snap = [value |-> account[req[r].user].settings,
                                      version |-> account[req[r].user].settingsVersion]])
    /\ UNCHANGED <<created, session, account, userSeq, sessionSeq, messages, emitted, lock, issued, presence, registered, busUp, routed, process, blobstore>>

\* The where clause of the conditional write.
SettingsWhere(a, ev) == account[a].settingsVersion = ev

\* A handler that stores the settings whatever the version and guards only the
\* version bump.
SettingsWrite_dirty(r) ==
    /\ req[r].kind = "settings" /\ req[r].pc = "updateMany"
    /\ IF SettingsWhere(req[r].user, req[r].ev)
         THEN /\ account' = [account EXCEPT ![req[r].user].settings = req[r].value,
                                            ![req[r].user].settingsVersion = req[r].ev + 1]
              /\ SetReq(r, [req[r] EXCEPT !.pc = "allocateUserSeq", !.wrote = TRUE])
         ELSE /\ SetReq(r, [req[r] EXCEPT !.pc = "refetch"])
              /\ account' = [account EXCEPT ![req[r].user].settings = req[r].value]
    /\ UNCHANGED <<created, session, userSeq, sessionSeq, messages, emitted, lock, issued, presence, registered, busUp, routed, process, blobstore>>

\* updateMany runs in the store; a count of 0 leads to the re-fetch.
SettingsWrite(r) ==
    /\ req[r].kind = "settings" /\ req[r].pc = "updateMany"
    /\ IF SettingsWhere(req[r].user, req[r].ev)
         THEN /\ account' = [account EXCEPT ![req[r].user].settings = req[r].value,
                                            ![req[r].user].settingsVersion = req[r].ev + 1]
              /\ SetReq(r, [req[r] EXCEPT !.pc = "allocateUserSeq", !.wrote = TRUE])
         ELSE /\ SetReq(r, [req[r] EXCEPT !.pc = "refetch"])
              /\ UNCHANGED account
    /\ UNCHANGED <<created, session, userSeq, sessionSeq, messages, emitted, lock, issued, presence, registered, busUp, routed, process, blobstore>>

\* The re-fetch returns; the version-mismatch reply carries what it read.
SettingsRefetch(r) ==
    /\ req[r].kind = "settings" /\ req[r].pc = "refetch"
    /\ Finish(r, Reply("version-mismatch", account[req[r].user].settingsVersion,
                       OrNull(account[req[r].user].settings)))
    /\ UNCHANGED <<created, session, account, userSeq, sessionSeq, messages, emitted, lock, issued, presence, registered, busUp, routed, process, blobstore>>

\* allocateUserSeq returns; the account update is emitted and the success reply sent.
SettingsEmit(r) ==
    /\ req[r].kind = "settings" /\ req[r].pc = "allocateUserSeq"
    /\ allocateUserSeq(req[r].user)
    /\ emitUpdate(Update("update-account", req[r].user, None,
                                        userSeq'[req[r].user], req[r].ev + 1, req[r].value, None, r),
                  AllUserAuthenticatedConnections)
    /\ SetReq(r, [req[r] EXCEPT !.pc = "done", !.updSeq = userSeq'[req[r].user],
                      !.replies = Append(@, Reply("success", req[r].ev + 1, None))])
    /\ UNCHANGED <<created, session, account, sessionSeq, messages, lock, presence, registered, busUp, process, blobstore>>

\* A storage call throws; the catch block replies 500.
SettingsCatch(r) ==
    /\ req[r].kind = "settings"
    /\ req[r].pc \in {"findUnique", "updateMany", "refetch", "allocateUserSeq"}
    /\ FinishThrown(r, ErrorReply)
    /\ UNCHANGED <<created, session, account, userSeq, sessionSeq, messages, emitted, lock, issued, presence, registered, busUp, routed, process, blobstore>>

---------------------------------------------------------------------------
(* AsyncLock: receiveMessageLock.inLock *)

\* inLock is entered: the caller holds the lock at once when it is free, and
\* otherwise waits behind the earlier callers.
LockEnter(c, r) == lock' = [lock EXCEPT ![c] = Append(@, r)]
LockFree(c) == lock[c] = <<>>

\* inLock's function has returned or thrown: the lock passes to the first waiter.
LockLeave(c, r) == lock' = [lock EXCEPT ![c] = SelectSeq(@, LAMBDA q : q # r)]
NextHolder(c, r) ==
    LET rest == SelectSeq(lock[c], LAMBDA q : q # r)
    IN  IF rest # <<>> /\ req[Head(rest)].pc = "wait" THEN {Head(rest)} ELSE {}

---------------------------------------------------------------------------
(* socket.on('message') *)

\* The handler without inLock: the body starts as soon as the command arrives.
MessageReceive_nolock(r) ==
    /\ CanReceive(r)
    /\ \E c \in Connected, sid \in Sessions, l \in LocalIds, m \in MessageBodies :
          /\ SetReq(r, [NoReq EXCEPT !.kind = "message", !.pc = "findUnique",
                                     !.conn = c, !.user = ConnUser[c], !.sid = sid,
                                     !.localId = l, !.value = m])
          /\ LockEnter(c, r)
    /\ UNCHANGED <<created, session, account, userSeq, sessionSeq, messages, emitted, issued, presence, registered, busUp, routed, process, blobstore>>

\* The data of the command can be destructured and has a message to take the length of.
Readable(r) == req[r].bad \notin {"no-data", "no-message"}

\* The command arrives and calls inLock.
MessageReceive(r) ==
    /\ CanReceive(r)
    /\ \E c \in Connected, sid \in Sessions, l \in LocalIds, m \in MessageBodies :
          /\ SetReq(r, [NoReq EXCEPT !.kind = "message",
                                     !.pc = IF LockFree(c) THEN "findUnique" ELSE "wait",
                                     !.conn = c, !.user = ConnUser[c], !.sid = sid,
                                     !.localId = l, !.value = m])
          /\ LockEnter(c, r)
    /\ UNCHANGED <<created, session, account, userSeq, sessionSeq, messages, emitted, issued, presence, registered, busUp, routed, process, blobstore>>

\* The function passed to inLock returns (or its catch block has run): the request
\* ends as `rec` and the lock is released.
MessageReturn(r, rec) ==
    /\ LockLeave(req[r].conn, r)
    /\ req' = [q \in Reqs |->
                 IF q = r THEN rec
                 ELSE IF q \in NextHolder(req[r].conn, r) THEN [req[q] EXCEPT !.pc = "findUnique"]
                 ELSE req[q]]

\* findUnique returns; an unknown session ends the command.
MessageFind(r) ==
    /\ req[r].kind = "message" /\ req[r].pc = "findUnique" /\ Readable(r)
    /\ IF ~SessionFound(req[r].sid, req[r].user)
         THEN MessageReturn(r, [req[r] EXCEPT !.pc = "done"])
         ELSE SetReq(r, [req[r] EXCEPT !.pc = "allocateUserSeq"]) /\ UNCHANGED lock
    /\ UNCHANGED <<created, session, account, userSeq, sessionSeq, messages, emitted, issued, presence, registered, busUp, routed, process, blobstore>>

\* A handler that goes on only while its connection is registered.
MessageAllocateUserSeq_attached(r) ==
    /\ req[r].kind = "message" /\ req[r].pc = "allocateUserSeq"
    /\ req[r].conn \in registered
    /\ allocateUserSeq(req[r].user)
    /\ SetReq(r, [req[r] EXCEPT !.pc = "allocateSessionSeq", !.updSeq = userSeq'[req[r].user]])
    /\ UNCHANGED <<created, session, account, sessionSeq, messages, emitted, lock, presence, registered, busUp, routed, process, blobstore>>

\* allocateUserSeq returns.
MessageAllocateUserSeq(r) ==
    /\ req[r].kind = "message" /\ req[r].pc = "allocateUserSeq"
    /\ allocateUserSeq(req[r].user)
    /\ SetReq(r, [req[r] EXCEPT !.pc = "allocateSessionSeq", !.updSeq = userSeq'[req[r].user]])
    /\ UNCHANGED <<created, session, account, sessionSeq, messages, emitted, lock, presence, registered, busUp, routed, process, blobstore>>

\* allocateSessionSeq returns; a string localId leads to the existence check.
MessageAllocateSessionSeq(r) ==
    /\ req[r].kind = "message" /\ req[r].pc = "allocateSessionSeq"
    /\ allocateSessionSeq(req[r].sid)
    /\ SetReq(r, [req[r] EXCEPT !.pc = IF req[r].localId # "null" THEN "findFirst" ELSE "transaction",
                                !.msgSeq = sessionSeq'[req[r].sid]])
    /\ UNCHANGED <<created, session, account, userSeq, messages, emitted, lock, presence, registered, busUp, routed, process, blobstore>>

\* A handler that skips the existence check.
MessageExists_never(sid, l) == FALSE

\* db.sessionMessage.findFirst({ where: { sessionId, localId } }) finds a row.
MessageExists(sid, l) == \E m \in messages : m.sid = sid /\ m.localId = l

\* findFirst returns; an existing message ends the command.
MessageFindFirst(r) ==
    /\ req[r].kind = "message" /\ req[r].pc = "findFirst"
    /\ IF MessageExists(req[r].sid, req[r].localId)
         THEN MessageReturn(r, [req[r] EXCEPT !.pc = "done"])
         ELSE SetReq(r, [req[r] EXCEPT !.pc = "transaction"]) /\ UNCHANGED lock
    /\ UNCHANGED <<created, session, account, userSeq, sessionSeq, messages, emitted, issued, presence, registered, busUp, routed, process, blobstore>>

\* An emit that names no connection to skip.
MessageCreate_echo(r) ==
    /\ req[r].kind = "message" /\ req[r].pc = "transaction"
    /\ messages' = messages \cup {[id |-> r, sid |-> req[r].sid, seq |-> req[r].msgSeq,
                                    content |-> req[r].value, localId |-> req[r].localId]}
    /\ session' = [session EXCEPT ![req[r].sid].lastMessageAt = "set"]
    /\ emitUpdate(Update("new-message", req[r].user, req[r].sid, req[r].updSeq,
                                        req[r].msgSeq, req[r].localId, None, r),
                  AllInterestedInSession(req[r].sid))
    /\ MessageReturn(r, [req[r] EXCEPT !.pc = "done", !.wrote = TRUE])
    /\ UNCHANGED <<created, account, userSeq, sessionSeq, issued, presence, registered, busUp, process, blobstore>>

\* The transaction commits (message row and lastMessageAt); the new-message update
\* is emitted, skipping the sender's connection.
MessageCreate(r) ==
    /\ req[r].kind = "message" /\ req[r].pc = "transaction"
    /\ messages' = messages \cup {[id |-> r, sid |-> req[r].sid, seq |-> req[r].msgSeq,
                                    content |-> req[r].value, localId |-> req[r].localId]}
    /\ session' = [session EXCEPT ![req[r].sid].lastMessageAt = "set"]
    /\ emitUpdate(Update("new-message", req[r].user, req[r].sid, req[r].updSeq,
                                        req[r].msgSeq, req[r].localId, req[r].conn, r),
                  AllInterestedInSession(req[r].sid))
    /\ MessageReturn(r, [req[r] EXCEPT !.pc = "done", !.wrote = TRUE])
    /\ UNCHANGED <<created, account, userSeq, sessionSeq, issued, presence, registered, busUp, process, blobstore>>

\* A catch block that ends the command and keeps the lock.
MessageCatch_held(r) ==
    /\ req[r].kind = "message" /\ Readable(r)
    /\ req[r].pc \in {"findUnique", "allocateUserSeq", "allocateSessionSeq", "findFirst", "transaction"}
    /\ SetReq(r, [req[r] EXCEPT !.pc = "done", !.failed = TRUE])
    /\ UNCHANGED <<created, session, account, userSeq, sessionSeq, messages, emitted, lock, issued, presence, registered, busUp, routed, process, blobstore>>

\* A storage call throws; the catch block logs and the command ends.
MessageCatch(r) ==
    /\ req[r].kind = "message" /\ Readable(r)
    /\ req[r].pc \in {"findUnique", "allocateUserSeq", "allocateSessionSeq", "findFirst", "transaction"}
    /\ MessageReturn(r, [req[r] EXCEPT !.pc = "done", !.failed = TRUE])
    /\ UNCHANGED <<created, session, account, userSeq, sessionSeq, messages, emitted, issued, presence, registered, busUp, routed, process, blobstore>>

---------------------------------------------------------------------------
(* app.post('/v1/sessions') *)

SessionCreateReceive(r) ==
    /\ CanReceive(r)
    /\ \E u \in HttpUsers, t \in Tags :
          SetReq(r, [NoReq EXCEPT !.kind = "create-session", !.pc = "findFirst",
                                  !.user = u, !.localId = t, !.value = Payload(r)])
    /\ UNCHANGED <<created, session, account, userSeq, sessionSeq, messages, emitted, lock, issued, presence, registered, busUp, routed, process, blobstore>>

\* db.session.findFirst({ where: { accountId, tag } }).
SessionsTagged(u, t) == {c \in created : c.accountId = u /\ c.tag = t}

\* findFirst returns; an existing session is sent back as it is.
SessionCreateFind(r) ==
    /\ req[r].kind = "create-session" /\ req[r].pc = "findFirst"
    /\ IF SessionsTagged(req[r].user, req[r].localId) # {}
         THEN \E c \in SessionsTagged(req[r].user, req[r].localId) :
                 Finish(r, Reply("session", c.metadataVersion, c.id))
         ELSE SetReq(r, [req[r] EXCEPT !.pc = "allocateUserSeq"])
    /\ UNCHANGED <<created, session, account, userSeq, sessionSeq, messages, emitted, lock, issued, presence, registered, busUp, routed, process, blobstore>>

\* allocateUserSeq returns.
SessionCreateAllocateUserSeq(r) ==
    /\ req[r].kind = "create-session" /\ req[r].pc = "allocateUserSeq"
    /\ allocateUserSeq(req[r].user)
    /\ SetReq(r, [req[r] EXCEPT !.pc = "create", !.updSeq = userSeq'[req[r].user]])
    /\ UNCHANGED <<created, session, account, sessionSeq, messages, emitted, lock, presence, registered, busUp, routed, process, blobstore>>

\* db.session.create returns the new row; the new-session update is emitted and
\* the session sent back.
SessionCreateInsert(r) ==
    /\ req[r].kind = "create-session" /\ req[r].pc = "create"
    /\ created' = created \cup {[id |-> NewIds[r], accountId |-> req[r].user, tag |-> req[r].localId,
                                  metadata |-> req[r].value, metadataVersion |-> 0,
                                  agentStateVersion |-> 0]}
    /\ emitUpdate(Update("new-session", req[r].user, NewIds[r], req[r].updSeq,
                                        0, req[r].value, None, r),
                  AllUserAuthenticatedConnections)
    /\ SetReq(r, [req[r] EXCEPT !.pc = "done", !.wrote = TRUE,
                      !.replies = Append(@, Reply("session", 0, NewIds[r]))])
    /\ UNCHANGED <<session, account, userSeq, sessionSeq, messages, lock, issued, presence, registered, busUp, process, blobstore>>

\* A storage call throws: the route has no catch block and the request fails.
SessionCreateThrow(r) ==
    /\ req[r].kind = "create-session"
    /\ req[r].pc \in {"findFirst", "allocateUserSeq", "create"}
    /\ FinishThrown(r, ErrorReply)
    /\ UNCHANGED <<created, session, account, userSeq, sessionSeq, messages, emitted, lock, issued, presence, registered, busUp, routed, process, blobstore>>

---------------------------------------------------------------------------
(* app.get('/v2/sessions') *)

\* Session ids in ascending order of the id column.
SessionIdOrder == <<"n1", "n2", "n3", "n4">>
IdRank(id) == CHOOSE i \in DOMAIN SessionIdOrder : SessionIdOrder[i] = id
\* The rows the listing can find, by the columns the query reads: three sessions
\* of a1, the middle one changed earlier than the others, and one of a2 whose id
\* lies between theirs.
ListedRows ==
    {[id |-> "n1", accountId |-> "a1", updatedAt |-> 2],
     [id |-> "n2", accountId |-> "a2", updatedAt |-> 2],
     [id |-> "n3", accountId |-> "a1", updatedAt |-> 1],
     [id |-> "n4", accountId |-> "a1", updatedAt |-> 2]}
\* limit: the schema admits integers from 1 to 200.
Limits == {1, 2}
\* changedSince: a positive integer, or absent (0, which `if (changedSince)` skips).
ChangedSinces == {0, 1}
\* The cursor of a request that follows no earlier page: absent, one without the
\* prefix, and one a client kept from an earlier walk.
FirstCursors == {None, "n3", "cursor_v1_n3"}

\* The store holds any of the listed rows.
InitList == created \in SUBSET ListedRows /\ InitTables /\ sessionBlob = {} /\ s3 = {}

\* cursor.startsWith('cursor_v1_')
startsWith(cursor, prefix) == Len(cursor) >= Len(prefix) /\ SubSeq(cursor, 1, Len(prefix)) = prefix
\* cursor.substring(10)
substring(cursor, start) == SubSeq(cursor, start + 1, Len(cursor))
\* `cursor_v1_${lastSession.id}`
CursorOf(id) == "cursor_v1_" \o id

\* where.id = { lte: cursorSessionId }
CursorWhere_lte(id, cursorSessionId) == IdRank(id) <= IdRank(cursorSessionId)

\* where.id = { lt: cursorSessionId }
CursorWhere(id, cursorSessionId) == IdRank(id) < IdRank(cursorSessionId)

\* The where clause: the account, updatedAt > changedSince when given, and the
\* cursor condition when a cursor id was decoded.
ListWhere(row, user, changedSince, cursorSessionId) ==
    /\ row.accountId = user
    /\ changedSince # 0 => row.updatedAt > changedSince
    /\ cursorSessionId # "" => CursorWhere(row.id, cursorSessionId)

\* orderBy: { id: 'desc' }.
RECURSIVE OrderByIdDesc(_)
OrderByIdDesc(rows) ==
    IF rows = {} THEN <<>>
    ELSE LET top == CHOOSE x \in rows : \A y \in rows : IdRank(y.id) <= IdRank(x.id)
         IN <<top>> \o OrderByIdDesc(rows \ {top})

\* take: the first n rows.
Take(rows, n) == IF Len(rows) > n THEN SubSeq(rows, 1, n) ELSE rows

\* db.session.findMany({ where, orderBy, take: limit + 1 }).
SessionsFindMany(r) ==
    Take(OrderByIdDesc({row \in created :
                           ListWhere(row, req[r].user, req[r].changedSince, req[r].cursorSessionId)}),
         req[r].limit + 1)

\* The page requests of one client, one after the other: a request follows the
\* nextCursor of the page before it with the same limit and changedSince, or
\* begins a walk of its own.  A cursor without the prefix is answered 400.
SessionsListReceive(r) ==
    /\ CanReceive(r)
    /\ r > 1 => req[r - 1].pc = "done"
    /\ \/ \E u \in HttpUsers, cursor \in FirstCursors, limit \in Limits, changedSince \in ChangedSinces :
             LET q == [NoReq EXCEPT !.kind = "list-sessions", !.user = u, !.cursor = cursor,
                                    !.limit = limit, !.changedSince = changedSince, !.first = r]
             IN IF cursor = None
                  THEN SetReq(r, [q EXCEPT !.pc = "findMany"])
                ELSE IF startsWith(cursor, "cursor_v1_")
                  THEN SetReq(r, [q EXCEPT !.pc = "findMany", !.cursorSessionId = substring(cursor, 10)])
                ELSE SetReq(r, [q EXCEPT !.pc = "done", !.replies = <<Reply("400", -1, None)>>])
       \/ /\ r > 1 /\ req[r - 1].kind = "list-sessions" /\ req[r - 1].nextCursor # "null"
          /\ SetReq(r, [NoReq EXCEPT !.kind = "list-sessions", !.user = req[r - 1].user,
                                     !.cursor = req[r - 1].nextCursor,
                                     !.cursorSessionId = substring(req[r - 1].nextCursor, 10),
                                     !.limit = req[r - 1].limit, !.changedSince = req[r - 1].changedSince,
                                     !.first = req[r - 1].first, !.pc = "findMany"])
    /\ UNCHANGED <<created, session, account, userSeq, sessionSeq, messages, emitted, lock, issued, presence, registered, busUp, routed, process, blobstore>>

\* findMany returns: the page, hasNext and nextCursor are computed and sent.
SessionsListFindMany(r) ==
    /\ req[r].kind = "list-sessions" /\ req[r].pc = "findMany"
    /\ LET sessions == SessionsFindMany(r)
           hasNext == Len(sessions) > req[r].limit
           resultSessions == IF hasNext THEN SubSeq(sessions, 1, req[r].limit) ELSE sessions
           nextCursor == IF hasNext /\ Len(resultSessions) > 0
                           THEN CursorOf(resultSessions[Len(resultSessions)].id)
                           ELSE "null"
       IN SetReq(r, [req[r] EXCEPT !.pc = "done", !.hasNext = hasNext, !.nextCursor = nextCursor,
                                   !.resultSessions = [i \in DOMAIN resultSessions |-> resultSessions[i].id],
                                   !.replies = Append(@, Reply("sessions", -1, nextCursor))])
    /\ UNCHANGED <<created, session, account, userSeq, sessionSeq, messages, emitted, lock, issued, presence, registered, busUp, routed, process, blobstore>>

\* findMany throws: the route has no catch block and the request fails.
SessionsListThrow(r) ==
    /\ req[r].kind = "list-sessions" /\ req[r].pc = "findMany"
    /\ FinishThrown(r, ErrorReply)
    /\ UNCHANGED <<created, session, account, userSeq, sessionSeq, messages, emitted, lock, issued, presence, registered, busUp, routed, process, blobstore>>

---------------------------------------------------------------------------
(* app.post('/v1/account/profile') *)

\* The request arrives with a body the schema accepts.  With no field to update the
\* handler reads the profile; with a username to take it looks for another holder;
\* otherwise it goes on to the update.
ProfileReceive(r) ==
    /\ CanReceive(r)
    /\ \E u \in Accounts, name \in ProfileUsernames, first \in {None, Payload(r)} :
          SetReq(r, [NoReq EXCEPT !.kind = "profile", !.user = u, !.username = name, !.firstName = first,
                                  !.pc = IF name = None /\ first = None THEN "findUniqueOrThrow"
                                         ELSE IF name \in Usernames THEN "findFirst"
                                         ELSE "update"])
    /\ UNCHANGED <<created, session, account, userSeq, sessionSeq, messages, emitted, lock, issued, presence, registered, busUp, routed, process, blobstore>>

\* findUniqueOrThrow returns: the reply is the profile as stored.
ProfileCurrent(r) ==
    /\ req[r].kind = "profile" /\ req[r].pc = "findUniqueOrThrow"
    /\ Finish(r, Reply("success", -1, account[req[r].user].username))
    /\ UNCHANGED <<created, session, account, userSeq, sessionSeq, messages, emitted, lock, issued, presence, registered, busUp, routed, process, blobstore>>

\* db.account.findFirst({ where: { username, NOT: { id: userId } } }) returns a row.
UsernameTaken(name, user) == \E a \in Accounts \ {user} : account[a].username = name

\* Request r asks for a name that another account holds.
ProfileClash(r) == req[r].username \in Usernames /\ UsernameTaken(req[r].username, req[r].user)

\* findFirst returns: 409 when another account holds the name.
ProfileFindFirst(r) ==
    /\ req[r].kind = "profile" /\ req[r].pc = "findFirst"
    /\ IF UsernameTaken(req[r].username, req[r].user)
         THEN Finish(r, Reply("username-taken", -1, None))
         ELSE SetReq(r, [req[r] EXCEPT !.pc = "update"])
    /\ UNCHANGED <<created, session, account, userSeq, sessionSeq, messages, emitted, lock, issued, presence, registered, busUp, routed, process, blobstore>>

\* The row after data: updateData, which holds the fields the body provided.
ProfileUpdateData(row, r) ==
    [row EXCEPT !.username = IF req[r].username # None THEN req[r].username ELSE @,
                !.firstName = IF req[r].firstName # None THEN req[r].firstName ELSE @]

\* db.account.update returns: the row is written and the reply carries it.
ProfileUpdate(r) ==
    /\ req[r].kind = "profile" /\ req[r].pc = "update"
    /\ account' = [account EXCEPT ![req[r].user] = ProfileUpdateData(@, r)]
    /\ SetReq(r, [req[r] EXCEPT !.pc = "done", !.wrote = TRUE,
                                !.taken = ProfileClash(r),
                                !.replies = Append(@, Reply("success", -1,
                                                            ProfileUpdateData(account[req[r].user], r).username))])
    /\ UNCHANGED <<created, session, userSeq, sessionSeq, messages, emitted, lock, issued, presence, registered, busUp, routed, process, blobstore>>

\* A storage call throws (the store is unreachable, or it refuses the row); the catch
\* block replies 400.
ProfileCatch(r) ==
    /\ req[r].kind = "profile" /\ req[r].pc \in {"findUniqueOrThrow", "findFirst", "update"}
    /\ SetReq(r, [req[r] EXCEPT !.pc = "done", !.failed = TRUE,
                                !.taken = req[r].pc = "update" /\ ProfileClash(r),
                                !.replies = Append(@, ErrorReply)])
    /\ UNCHANGED <<created, session, account, userSeq, sessionSeq, messages, emitted, lock, issued, presence, registered, busUp, routed, process, blobstore>>

---------------------------------------------------------------------------
(* blobRoutes: POST, GET and DELETE /v1/sessions/:sid/blobs *)

\* parseInt(h, 10): the leading decimal digits of h, NaN (here -1) when there are none.
parseInt(h) == CASE h \in {"7", "7px"} -> 7 [] h = "0" -> 0 [] OTHER -> -1
\* Number.prototype.toString of a size.
SizeToString(n) == CASE n = 7 -> "7" [] n = 0 -> "0" [] OTHER -> "NaN"
\* encryptedBody.length > MAX_BLOB_SIZE
TooLarge(body) == body = "huge"
\* `blobs/${userId}/${sid}/${blobId}`
S3Key(user, sid, blobId) == <<"blobs", user, sid, blobId>>

\* A blob stored before the requests of the run: its row and its object.
StoredBlobId == "b0"
StoredRow ==
    [id |-> StoredBlobId, sessionId |-> "s1", accountId |-> "a1", mimeType |-> "image/png", size |-> 7,
     s3Key |-> S3Key("a1", "s1", StoredBlobId)]
StoredObject ==
    [key |-> S3Key("a1", "s1", StoredBlobId), body |-> "d0", mimeType |-> "image/png", size |-> "7"]

InitBlobs == InitStore /\ sessionBlob = {StoredRow} /\ s3 = {StoredObject}

\* The upload arrives: the header checks come before the first storage call.
BlobUploadReceive(r) ==
    /\ CanReceive(r)
    /\ \E u \in HttpUsers, sid \in Sessions, up \in UploadShapes(r) :
          LET refused == \/ up.mimeType = None
                         \/ up.mimeType \notin ALLOWED_MIME_TYPES
                         \/ parseInt(up.sizeHeader) <= 0
          IN SetReq(r, [NoReq EXCEPT !.kind = "blob-upload", !.user = u, !.sid = sid,
                                     !.mimeType = up.mimeType, !.sizeHeader = up.sizeHeader,
                                     !.body = up.body, !.blobId = BlobIds[r],
                                     !.pc = IF refused THEN "done" ELSE "findFirst",
                                     !.replies = IF refused THEN <<Reply("400", -1, None)>> ELSE <<>>])
    /\ UNCHANGED <<created, session, account, userSeq, sessionSeq, messages, emitted, lock, issued, presence, registered, busUp, routed, process, blobstore>>

\* db.session.findFirst returns: ownership, then the checks on the body.
BlobUploadFind(r) ==
    /\ req[r].kind = "blob-upload" /\ req[r].pc = "findFirst"
    /\ IF ~SessionFound(req[r].sid, req[r].user) THEN Finish(r, Reply("404", -1, None))
       ELSE IF req[r].body = "" THEN Finish(r, Reply("400", -1, None))
       ELSE IF TooLarge(req[r].body) THEN Finish(r, Reply("413", -1, None))
       ELSE SetReq(r, [req[r] EXCEPT !.pc = "putObject"])
    /\ UNCHANGED <<created, session, account, userSeq, sessionSeq, messages, emitted, lock, issued, presence, registered, busUp, routed, process, blobstore>>

\* s3client.putObject returns: the object is stored under the blob's key.
BlobUploadPut(r) ==
    /\ req[r].kind = "blob-upload" /\ req[r].pc = "putObject"
    /\ LET key == S3Key(req[r].user, req[r].sid, req[r].blobId)
       IN s3' = {o \in s3 : o.key # key} \cup
                  {[key |-> key, body |-> req[r].body, mimeType |-> req[r].mimeType,
                    size |-> SizeToString(parseInt(req[r].sizeHeader))]}
    /\ SetReq(r, [req[r] EXCEPT !.pc = "create"])
    /\ UNCHANGED <<created, session, account, userSeq, sessionSeq, messages, emitted, lock, issued, presence, registered, busUp, routed, process, sessionBlob>>

\* db.sessionBlob.create returns: the row is stored and the reply carries the id.
BlobUploadCreate(r) ==
    /\ req[r].kind = "blob-upload" /\ req[r].pc = "create"
    /\ sessionBlob' = sessionBlob \cup
          {[id |-> req[r].blobId, sessionId |-> req[r].sid, accountId |-> req[r].user,
            mimeType |-> req[r].mimeType, size |-> parseInt(req[r].sizeHeader),
            s3Key |-> S3Key(req[r].user, req[r].sid, req[r].blobId)]}
    /\ SetReq(r, [req[r] EXCEPT !.pc = "done", !.wrote = TRUE,
                                !.replies = Append(@, Reply("200", -1, req[r].blobId))])
    /\ UNCHANGED <<created, session, account, userSeq, sessionSeq, messages, emitted, lock, issued, presence, registered, busUp, routed, process, s3>>

\* A storage call of the upload throws: 500.
BlobUploadCatch(r) ==
    /\ req[r].kind = "blob-upload" /\ req[r].pc \in {"findFirst", "putObject", "create"}
    /\ FinishThrown(r, Reply("500", -1, None))
    /\ UNCHANGED <<created, session, account, userSeq, sessionSeq, messages, emitted, lock, issued, presence, registered, busUp, routed, process, blobstore>>

\* The blob ids a client can ask for: those given out so far, and the stored one.
KnownBlobIds(r) == {StoredBlobId} \cup {BlobIds[q] : q \in 1..(r - 1)}

\* A lookup of the blob by its id alone.
BlobRows_byid(blobId, sid, user) == {row \in sessionBlob : row.id = blobId}

\* db.sessionBlob.findFirst({ where: { id, sessionId, accountId } })
BlobRows(blobId, sid, user) ==
    {row \in sessionBlob : row.id = blobId /\ row.sessionId = sid /\ row.accountId = user}

\* The download arrives.
BlobDownloadReceive(r) ==
    /\ CanReceive(r)
    /\ \E u \in Accounts, sid \in Sessions, b \in KnownBlobIds(r) :
          SetReq(r, [NoReq EXCEPT !.kind = "blob-download", !.user = u, !.sid = sid, !.blobId = b,
                                  !.after = {q \in Reqs : req[q].pc = "done"},
                                  !.pc = "findFirst"])
    /\ UNCHANGED <<created, session, account, userSeq, sessionSeq, messages, emitted, lock, issued, presence, registered, busUp, routed, process, blobstore>>

\* findFirst returns: 404 without a row; with one, its mime type and size are the
\* headers of the reply.
BlobDownloadFind(r) ==
    /\ req[r].kind = "blob-download" /\ req[r].pc = "findFirst"
    /\ LET rows == BlobRows(req[r].blobId, req[r].sid, req[r].user)
       IN IF rows = {} THEN Finish(r, Reply("404", -1, None))
          ELSE \E row \in rows :
                  SetReq(r, [req[r] EXCEPT !.pc = "getObject", !.mimeType = row.mimeType,
                                           !.sizeHeader = SizeToString(row.size)])
    /\ UNCHANGED <<created, session, account, userSeq, sessionSeq, messages, emitted, lock, issued, presence, registered, busUp, routed, process, blobstore>>

\* s3client.getObject returns the object, or throws because there is none: 500.
BlobDownloadGet(r) ==
    /\ req[r].kind = "blob-download" /\ req[r].pc = "getObject"
    /\ LET objs == {o \in s3 : o.key = S3Key(req[r].user, req[r].sid, req[r].blobId)}
       IN IF objs = {} THEN Finish(r, Reply("500", -1, None))
          ELSE \E o \in objs :
                  SetReq(r, [req[r] EXCEPT !.pc = "done", !.body = o.body,
                                           !.replies = Append(@, Reply("200", -1, req[r].blobId))])
    /\ UNCHANGED <<created, session, account, userSeq, sessionSeq, messages, emitted, lock, issued, presence, registered, busUp, routed, process, blobstore>>

\* A storage call of the download throws: 500.
BlobDownloadCatch(r) ==
    /\ req[r].kind = "blob-download" /\ req[r].pc \in {"findFirst", "getObject"}
    /\ FinishThrown(r, Reply("500", -1, None))
    /\ UNCHANGED <<created, session, account, userSeq, sessionSeq, messages, emitted, lock, issued, presence, registered, busUp, routed, process, blobstore>>

\* The delete arrives.
BlobDeleteReceive(r) ==
    /\ CanReceive(r)
    /\ \E u \in Accounts, sid \in Sessions, b \in KnownBlobIds(r) :
          SetReq(r, [NoReq EXCEPT !.kind = "blob-delete", !.user = u, !.sid = sid, !.blobId = b,
                                  !.pc = "findFirst"])
    /\ UNCHANGED <<created, session, account, userSeq, sessionSeq, messages, emitted, lock, issued, presence, registered, busUp, routed, process, blobstore>>

\* findFirst returns: 404 without a row.
BlobDeleteFind(r) ==
    /\ req[r].kind = "blob-delete" /\ req[r].pc = "findFirst"
    /\ IF BlobRows(req[r].blobId, req[r].sid, req[r].user) = {}
         THEN Finish(r, Reply("404", -1, None))
         ELSE SetReq(r, [req[r] EXCEPT !.pc = "removeObject"])
    /\ UNCHANGED <<created, session, account, userSeq, sessionSeq, messages, emitted, lock, issued, presence, registered, busUp, routed, process, blobstore>>

\* s3client.removeObject returns: no object is left under the key.
BlobDeleteRemove(r) ==
    /\ req[r].kind = "blob-delete" /\ req[r].pc = "removeObject"
    /\ s3' = {o \in s3 : o.key # S3Key(req[r].user, req[r].sid, req[r].blobId)}
    /\ SetReq(r, [req[r] EXCEPT !.pc = "delete", !.wrote = TRUE])
    /\ UNCHANGED <<created, session, account, userSeq, sessionSeq, messages, emitted, lock, issued, presence, registered, busUp, routed, process, sessionBlob>>

\* A delete that answers success and leaves the row.
BlobDeleteRow_keep(r) ==
    /\ req[r].kind = "blob-delete" /\ req[r].pc = "delete"
    /\ Finish(r, Reply("200", -1, None))
    /\ UNCHANGED <<created, session, account, userSeq, sessionSeq, messages, emitted, lock, issued, presence, registered, busUp, routed, process, blobstore>>

\* db.sessionBlob.delete({ where: { id } }) returns, or throws because the row is
\* gone already: 500.
BlobDeleteRow(r) ==
    /\ req[r].kind = "blob-delete" /\ req[r].pc = "delete"
    /\ IF \E row \in sessionBlob : row.id = req[r].blobId
         THEN /\ sessionBlob' = {row \in sessionBlob : row.id # req[r].blobId}
              /\ Finish(r, Reply("200", -1, None))
         ELSE /\ UNCHANGED sessionBlob
              /\ Finish(r, Reply("500", -1, None))
    /\ UNCHANGED <<created, session, account, userSeq, sessionSeq, messages, emitted, lock, issued, presence, registered, busUp, routed, process, s3>>

\* A storage call of the delete throws: 500.
BlobDeleteCatch(r) ==
    /\ req[r].kind = "blob-delete" /\ req[r].pc \in {"findFirst", "removeObject", "delete"}
    /\ FinishThrown(r, Reply("500", -1, None))
    /\ UNCHANGED <<created, session, account, userSeq, sessionSeq, messages, emitted, lock, issued, presence, registered, busUp, routed, process, blobstore>>

---------------------------------------------------------------------------
(* The clock and the activity cache *)

\* Time passes.
Tick ==
    /\ now < StartTime + MaxTicks * TickStep
    /\ now' = now + TickStep
    /\ UNCHANGED <<created, session, account, userSeq, sessionSeq, messages, emitted, lock, req, issued,
                   activity, ephemerals, registered, busUp, routed, process, blobstore>>

\* activityCache.isSessionValid(sid, userId): the ownership check.  Ownership of a
\* session never changes, so what the cache remembers is what the store holds.
isSessionValid(sid, user) == SessionFound(sid, user)

\* activityCache.queueSessionUpdate(sid, t): the in-memory last-seen value is
\* updated at once; nothing is written.
queueSessionUpdate(sid, t) == activity' = [activity EXCEPT ![sid].lastSeenAt = t]

\* The cache holds a last-seen value it has not written.
Pending(sid) == activity[sid].lastSeenAt # 0 /\ activity[sid].lastSeenAt # activity[sid].lastFlushedAt
\* Enough time has passed since the last durable write for the session.
FlushDue(sid) == activity[sid].flushedOn = 0 \/ now - activity[sid].flushedOn >= DebounceInterval

\* The debounced write: the last-seen value goes to the session row.
ActivityFlush(sid) ==
    /\ process.running
    /\ Pending(sid) /\ FlushDue(sid)
    /\ session' = [session EXCEPT ![sid].lastActiveAt = activity[sid].lastSeenAt]
    /\ activity' = [activity EXCEPT ![sid].lastFlushedAt = activity[sid].lastSeenAt,
                                    ![sid].flushedOn = now]
    /\ UNCHANGED <<created, account, userSeq, sessionSeq, messages, emitted, lock, req, issued,
                   now, ephemerals, registered, busUp, routed, process, blobstore>>

\* The process is told to stop: it receives no further command and its flush timer
\* is cleared.
Shutdown ==
    /\ process.running
    /\ process' = [process EXCEPT !.running = FALSE]
    /\ UNCHANGED <<created, session, account, userSeq, sessionSeq, messages, emitted, lock, req, issued,
                   now, activity, ephemerals, registered, busUp, routed, blobstore>>

\* A shutdown flush that keeps to the debounce boundary.
ShutdownFlush_debounced(sid) ==
    /\ ~process.running
    /\ Pending(sid) /\ FlushDue(sid)
    /\ session' = [session EXCEPT ![sid].lastActiveAt = activity[sid].lastSeenAt]
    /\ activity' = [activity EXCEPT ![sid].lastFlushedAt = activity[sid].lastSeenAt,
                                    ![sid].flushedOn = now]
    /\ process' = [process EXCEPT !.flushed = @ \cup {sid}]
    /\ UNCHANGED <<created, account, userSeq, sessionSeq, messages, emitted, lock, req, issued,
                   now, ephemerals, registered, busUp, routed, blobstore>>

\* The shutdown flush: a pending last-seen value goes to the session row, whatever
\* the time since the last write for the session.
ShutdownFlush(sid) ==
    /\ ~process.running
    /\ Pending(sid)
    /\ session' = [session EXCEPT ![sid].lastActiveAt = activity[sid].lastSeenAt]
    /\ activity' = [activity EXCEPT ![sid].lastFlushedAt = activity[sid].lastSeenAt,
                                    ![sid].flushedOn = now]
    /\ process' = [process EXCEPT !.flushed = @ \cup {sid}]
    /\ UNCHANGED <<created, account, userSeq, sessionSeq, messages, emitted, lock, req, issued,
                   now, ephemerals, registered, busUp, routed, blobstore>>

---------------------------------------------------------------------------
(* socket.on('session-alive') and socket.on('session-end') *)

\* A handler that passes the client's time on as it is.
Clamp_none(time) == time

\* let t = time; if (t > Date.now()) t = Date.now();
Clamp(time) == IF time > now THEN now ELSE time
\* t < Date.now() - 1000 * 60 * 10
TooOld(t) == t < now - TenMinutes

\* The session-activity ephemeral built by buildSessionActivityEphemeral for request r.
Activity(user, sid, active, t, thinking, r) ==
    [kind |-> "activity", user |-> user, sid |-> sid, active |-> active, activeAt |-> t,
     thinking |-> thinking, id |-> r]

\* The heartbeat arrives: validation, clamping, cutoff.
SessionAliveReceive(r) ==
    /\ CanReceive(r)
    /\ \E c \in Connected, sid \in Sessions, time \in Times(now) :
          SetReq(r, [NoReq EXCEPT !.kind = "session-alive", !.user = ConnUser[c], !.sid = sid,
                                  !.at = now, !.time = time, !.t = Clamp(time),
                                  !.thinking = Thinking(r),
                                  !.pc = IF TooOld(Clamp(time)) THEN "done" ELSE "isSessionValid"])
    /\ UNCHANGED <<created, session, account, userSeq, sessionSeq, messages, emitted, lock, issued,
                   now, activity, ephemerals, registered, busUp, routed, process, blobstore>>

\* A heartbeat that is announced only when the cache is about to write.
SessionAliveValid_quiet(r) ==
    /\ req[r].kind = "session-alive" /\ req[r].pc = "isSessionValid"
    /\ SetReq(r, [req[r] EXCEPT !.pc = "done", !.looked = TRUE])
    /\ IF ~isSessionValid(req[r].sid, req[r].user)
         THEN UNCHANGED <<activity, ephemerals, routed>>
         ELSE /\ queueSessionUpdate(req[r].sid, req[r].t)
              /\ IF FlushDue(req[r].sid)
                   THEN emitEphemeral(Activity(req[r].user, req[r].sid, TRUE, req[r].t, req[r].thinking, r),
                                      AllUserAuthenticatedConnections)
                   ELSE UNCHANGED <<ephemerals, routed>>
    /\ UNCHANGED <<created, session, account, userSeq, sessionSeq, messages, emitted, lock, issued,
                   now, registered, busUp, process, blobstore>>

\* isSessionValid returns: an invalid session ends the command; a valid one has its
\* activity queued and its ephemeral emitted.
SessionAliveValid(r) ==
    /\ req[r].kind = "session-alive" /\ req[r].pc = "isSessionValid"
    /\ SetReq(r, [req[r] EXCEPT !.pc = "done", !.looked = TRUE])
    /\ IF ~isSessionValid(req[r].sid, req[r].user)
         THEN UNCHANGED <<activity, ephemerals, routed>>
         ELSE /\ queueSessionUpdate(req[r].sid, req[r].t)
              /\ emitEphemeral(Activity(req[r].user, req[r].sid, TRUE, req[r].t, req[r].thinking, r),
                               AllUserAuthenticatedConnections)
    /\ UNCHANGED <<created, session, account, userSeq, sessionSeq, messages, emitted, lock, issued,
                   now, registered, busUp, process, blobstore>>

\* isSessionValid throws; the catch block logs and the command ends.
SessionAliveCatch(r) ==
    /\ req[r].kind = "session-alive" /\ req[r].pc = "isSessionValid"
    /\ SetReq(r, [req[r] EXCEPT !.pc = "done", !.failed = TRUE])
    /\ UNCHANGED <<created, session, account, userSeq, sessionSeq, messages, emitted, lock, issued,
                   now, activity, ephemerals, registered, busUp, routed, process, blobstore>>

\* The session-end arrives: validation, clamping, cutoff.
SessionEndReceive(r) ==
    /\ CanReceive(r)
    /\ \E c \in Connected, sid \in SessionIds, time \in Times(now) :
          SetReq(r, [NoReq EXCEPT !.kind = "session-end", !.user = ConnUser[c], !.sid = sid,
                                  !.at = now, !.time = time, !.t = Clamp(time),
                                  !.pc = IF TooOld(Clamp(time)) THEN "done" ELSE "findUnique"])
    /\ UNCHANGED <<created, session, account, userSeq, sessionSeq, messages, emitted, lock, issued,
                   now, activity, ephemerals, registered, busUp, routed, process, blobstore>>

\* A lookup by id alone.
SessionEndFind_anyowner(r) ==
    /\ req[r].kind = "session-end" /\ req[r].pc = "findUnique"
    /\ SetReq(r, [req[r] EXCEPT !.pc = IF req[r].sid \in Sessions THEN "update" ELSE "done",
                                !.looked = TRUE])
    /\ UNCHANGED <<created, session, account, userSeq, sessionSeq, messages, emitted, lock, issued,
                   now, activity, ephemerals, registered, busUp, routed, process, blobstore>>

\* findUnique returns; an unknown session ends the command.
SessionEndFind(r) ==
    /\ req[r].kind = "session-end" /\ req[r].pc = "findUnique"
    /\ SetReq(r, [req[r] EXCEPT !.pc = IF SessionFound(req[r].sid, req[r].user) THEN "update" ELSE "done",
                                !.looked = TRUE])
    /\ UNCHANGED <<created, session, account, userSeq, sessionSeq, messages, emitted, lock, issued,
                   now, activity, ephemerals, registered, busUp, routed, process, blobstore>>

\* A session-end that stores and reports data.time as it was sent.
SessionEndUpdate_raw(r) ==
    /\ req[r].kind = "session-end" /\ req[r].pc = "update"
    /\ session' = [session EXCEPT ![req[r].sid].lastActiveAt = req[r].time, ![req[r].sid].active = FALSE]
    /\ emitEphemeral(Activity(req[r].user, req[r].sid, FALSE, req[r].time, FALSE, r),
                     AllUserAuthenticatedConnections)
    /\ SetReq(r, [req[r] EXCEPT !.pc = "done", !.wrote = TRUE])
    /\ UNCHANGED <<created, account, userSeq, sessionSeq, messages, emitted, lock, issued,
                   now, activity, registered, busUp, process, blobstore>>

\* A session-end that takes an account-scope number for its event.
SessionEndUpdate_counted(r) ==
    /\ req[r].kind = "session-end" /\ req[r].pc = "update"
    /\ session' = [session EXCEPT ![req[r].sid].lastActiveAt = req[r].t, ![req[r].sid].active = FALSE]
    /\ allocateUserSeq(req[r].user)
    /\ emitEphemeral(Activity(req[r].user, req[r].sid, FALSE, req[r].t, FALSE, r),
                     AllUserAuthenticatedConnections)
    /\ SetReq(r, [req[r] EXCEPT !.pc = "done", !.wrote = TRUE])
    /\ UNCHANGED <<created, account, sessionSeq, messages, emitted, lock,
                   now, activity, registered, busUp, process, blobstore>>

\* db.session.update returns; the ephemeral is emitted.
SessionEndUpdate(r) ==
    /\ req[r].kind = "session-end" /\ req[r].pc = "update"
    /\ session' = [session EXCEPT ![req[r].sid].lastActiveAt = req[r].t, ![req[r].sid].active = FALSE]
    /\ emitEphemeral(Activity(req[r].user, req[r].sid, FALSE, req[r].t, FALSE, r),
                     AllUserAuthenticatedConnections)
    /\ SetReq(r, [req[r] EXCEPT !.pc = "done", !.wrote = TRUE])
    /\ UNCHANGED <<created, account, userSeq, sessionSeq, messages, emitted, lock, issued,
                   now, activity, registered, busUp, process, blobstore>>

\* A storage call throws; the catch block logs and the command ends.
SessionEndCatch(r) ==
    /\ req[r].kind = "session-end" /\ req[r].pc \in {"findUnique", "update"}
    /\ SetReq(r, [req[r] EXCEPT !.pc = "done", !.failed = TRUE])
    /\ UNCHANGED <<created, session, account, userSeq, sessionSeq, messages, emitted, lock, issued,
                   now, activity, ephemerals, registered, busUp, routed, process, blobstore>>

---------------------------------------------------------------------------
(* Malformed commands *)

\* What is wrong with the data of a command: it is absent altogether, or it lacks
\* the session id, or a field has the wrong type.
BadUpdates == {"no-data", "no-sid", "bad-value", "bad-version"}
BadHeartbeats == {"no-data", "no-sid", "bad-time"}
BadEnds == {"no-data", "bad-time"}
BadMessages == {"no-data", "no-sid", "no-message"}

\* A validation that looks at the session id only: a wrong value or version passes.
UpdateMetadataMalformed_lax(r) ==
    /\ CanReceive(r)
    /\ \E c \in Connected, bad \in BadUpdates, noack \in BOOLEAN, sid \in Sessions, ev \in ExpectedVersions :
          SetReq(r, IF bad \in {"bad-value", "bad-version"}
                      THEN [NoReq EXCEPT !.kind = "update-metadata", !.user = ConnUser[c],
                                         !.bad = bad, !.noack = noack, !.pc = "findUnique",
                                         !.sid = sid, !.ev = ev, !.value = Payload(r)]
                      ELSE [NoReq EXCEPT !.kind = "update-metadata", !.user = ConnUser[c],
                                         !.bad = bad, !.noack = noack, !.pc = "done",
                                         !.replies = IF noack THEN <<>> ELSE <<ErrorReply>>])
    /\ UNCHANGED <<created, session, account, userSeq, sessionSeq, messages, emitted, lock, issued,
                   presence, registered, busUp, routed, process, blobstore>>

\* update-metadata with data that fails the validation (or that cannot be destructured,
\* which the catch block handles the same way): the callback, when one was passed,
\* gets { result: 'error' } and the handler returns.
UpdateMetadataMalformed(r) ==
    /\ CanReceive(r)
    /\ \E c \in Connected, bad \in BadUpdates, noack \in BOOLEAN :
          SetReq(r, [NoReq EXCEPT !.kind = "update-metadata", !.user = ConnUser[c],
                                  !.bad = bad, !.noack = noack, !.pc = "done",
                                  !.replies = IF noack THEN <<>> ELSE <<ErrorReply>>])
    /\ UNCHANGED <<created, session, account, userSeq, sessionSeq, messages, emitted, lock, issued,
                   presence, registered, busUp, routed, process, blobstore>>

\* update-state with data that fails the validation.
UpdateStateMalformed(r) ==
    /\ CanReceive(r)
    /\ \E c \in Connected, bad \in BadUpdates, noack \in BOOLEAN :
          SetReq(r, [NoReq EXCEPT !.kind = "update-state", !.user = ConnUser[c],
                                  !.bad = bad, !.noack = noack, !.pc = "done",
                                  !.replies = IF noack THEN <<>> ELSE <<ErrorReply>>])
    /\ UNCHANGED <<created, session, account, userSeq, sessionSeq, messages, emitted, lock, issued,
                   presence, registered, busUp, routed, process, blobstore>>

\* session-alive without data, without a numeric time or without a session id: the
\* handler returns.
SessionAliveMalformed(r) ==
    /\ CanReceive(r)
    /\ \E c \in Connected, bad \in BadHeartbeats :
          SetReq(r, [NoReq EXCEPT !.kind = "session-alive", !.user = ConnUser[c],
                                  !.bad = bad, !.pc = "done"])
    /\ UNCHANGED <<created, session, account, userSeq, sessionSeq, messages, emitted, lock, issued,
                   presence, registered, busUp, routed, process, blobstore>>

\* session-end without a numeric time (or without data, which throws into the catch
\* block): the handler returns.
SessionEndMalformed(r) ==
    /\ CanReceive(r)
    /\ \E c \in Connected, bad \in BadEnds :
          SetReq(r, [NoReq EXCEPT !.kind = "session-end", !.user = ConnUser[c],
                                  !.bad = bad, !.pc = "done"])
    /\ UNCHANGED <<created, session, account, userSeq, sessionSeq, messages, emitted, lock, issued,
                   presence, registered, busUp, routed, process, blobstore>>

\* message with fields missing.  The handler does not validate: it takes the lock
\* like any other message.  Without a session id it goes on to findUnique, which
\* finds no row (or throws); without data or without a message it throws before.
MessageMalformed(r) ==
    /\ CanReceive(r)
    /\ \E c \in Connected, bad \in BadMessages, m \in MessageBodies :
          /\ SetReq(r, [NoReq EXCEPT !.kind = "message",
                                     !.pc = IF LockFree(c) THEN "findUnique" ELSE "wait",
                                     !.conn = c, !.user = ConnUser[c], !.bad = bad,
                                     !.localId = "null",
                                     !.value = IF bad = "no-sid" THEN m ELSE None])
          /\ LockEnter(c, r)
    /\ UNCHANGED <<created, session, account, userSeq, sessionSeq, messages, emitted, issued,
                   presence, registered, busUp, routed, process, blobstore>>

\* Destructuring the data or taking message.length throws a TypeError inside the
\* try block, before any storage call; the catch block logs it.
MessageThrow(r) ==
    /\ req[r].kind = "message" /\ req[r].pc = "findUnique" /\ ~Readable(r)
    /\ MessageReturn(r, [req[r] EXCEPT !.pc = "done"])
    /\ UNCHANGED <<created, session, account, userSeq, sessionSeq, messages, emitted, issued,
                   presence, registered, busUp, routed, process, blobstore>>

---------------------------------------------------------------------------
(* The system *)

Next ==
    \E r \in Reqs :
        \/ UpdateMetadataReceive(r)
        \/ UpdateMetadataFind(r)
        \/ UpdateMetadataWrite(r)
        \/ UpdateMetadataEmit(r)
        \/ UpdateMetadataCatch(r)
        \/ UpdateStateReceive(r)
        \/ UpdateStateFind(r)
        \/ UpdateStateWrite(r)
        \/ UpdateStateEmit(r)
        \/ UpdateStateCatch(r)
        \/ SettingsReceive(r)
        \/ SettingsFind(r)
        \/ SettingsWrite(r)
        \/ SettingsRefetch(r)
        \/ SettingsEmit(r)
        \/ SettingsCatch(r)
        \/ SessionCreateReceive(r)
        \/ SessionCreateFind(r)
        \/ SessionCreateAllocateUserSeq(r)
        \/ SessionCreateInsert(r)
        \/ SessionCreateThrow(r)
        \/ MessageReceive(r)
        \/ MessageFind(r)
        \/ MessageAllocateUserSeq(r)
        \/ MessageAllocateSessionSeq(r)
        \/ MessageFindFirst(r)
        \/ MessageCreate(r)
        \/ MessageCatch(r)

Spec == Init /\ [][Next]_vars

\* The versioned fields: the two socket commands and the settings route.
\* POST /v1/sessions requests of one account that carry the same tag, next to
\* update-metadata commands of the same account, which draw on the same
\* account-scope counter.
NextCreate ==
    \E r \in Reqs :
        \/ SessionCreateReceive(r)
        \/ SessionCreateFind(r)
        \/ SessionCreateAllocateUserSeq(r)
        \/ SessionCreateInsert(r)
        \/ SessionCreateThrow(r)
        \/ UpdateMetadataReceive(r)
        \/ UpdateMetadataFind(r)
        \/ UpdateMetadataWrite(r)
        \/ UpdateMetadataEmit(r)

SpecCreate == Init /\ [][NextCreate]_vars

\* GET /v2/sessions over a store that does not change.
NextList ==
    \E r \in Reqs :
        \/ SessionsListReceive(r)
        \/ SessionsListFindMany(r)
        \/ SessionsListThrow(r)

SpecList == InitList /\ [][NextList]_vars

NextFields ==
    \E r \in Reqs :
        \/ UpdateMetadataReceive(r)
        \/ UpdateMetadataFind(r)
        \/ UpdateMetadataWrite(r)
        \/ UpdateMetadataEmit(r)
        \/ UpdateMetadataCatch(r)
        \/ UpdateStateReceive(r)
        \/ UpdateStateFind(r)
        \/ UpdateStateWrite(r)
        \/ UpdateStateEmit(r)
        \/ UpdateStateCatch(r)
        \/ SettingsReceive(r)
        \/ SettingsFind(r)
        \/ SettingsWrite(r)
        \/ SettingsRefetch(r)
        \/ SettingsEmit(r)
        \/ SettingsCatch(r)

SpecFields == Init /\ [][NextFields]_vars

\* The socket commands of one account's connections, well-formed and malformed.
NextInput ==
    \E r \in Reqs :
        \/ UpdateMetadataReceive(r)
        \/ UpdateMetadataMalformed(r)
        \/ UpdateMetadataFind(r)
        \/ UpdateMetadataWrite(r)
        \/ UpdateMetadataEmit(r)
        \/ UpdateMetadataCatch(r)
        \/ UpdateStateMalformed(r)
        \/ SessionAliveMalformed(r)
        \/ SessionEndMalformed(r)
        \/ MessageReceive(r)
        \/ MessageMalformed(r)
        \/ MessageThrow(r)
        \/ MessageFind(r)
        \/ MessageAllocateUserSeq(r)
        \/ MessageAllocateSessionSeq(r)
        \/ MessageFindFirst(r)
        \/ MessageCreate(r)
        \/ MessageCatch(r)

SpecInput == Init /\ [][NextInput]_vars

\* The message command on the connections of one account.
NextMessages ==
    \E r \in Reqs :
        \/ MessageReceive(r)
        \/ MessageMalformed(r)
        \/ MessageThrow(r)
        \/ MessageFind(r)
        \/ MessageAllocateUserSeq(r)
        \/ MessageAllocateSessionSeq(r)
        \/ MessageFindFirst(r)
        \/ MessageCreate(r)
        \/ MessageCatch(r)

SpecMessages == Init /\ [][NextMessages]_vars

\* The five socket commands of the connections of one account.
NextSocket ==
    \E r \in Reqs :
        \/ UpdateMetadataReceive(r)
        \/ UpdateMetadataFind(r)
        \/ UpdateMetadataWrite(r)
        \/ UpdateMetadataEmit(r)
        \/ UpdateStateReceive(r)
        \/ UpdateStateFind(r)
        \/ UpdateStateWrite(r)
        \/ UpdateStateEmit(r)
        \/ MessageReceive(r)
        \/ MessageFind(r)
        \/ MessageAllocateUserSeq(r)
        \/ MessageAllocateSessionSeq(r)
        \/ MessageFindFirst(r)
        \/ MessageCreate(r)
        \/ SessionAliveReceive(r)
        \/ SessionAliveValid(r)
        \/ SessionEndReceive(r)
        \/ SessionEndFind(r)
        \/ SessionEndUpdate(r)

SpecSocket == Init /\ [][NextSocket]_vars

\* A step of the handler of message command r: a storage call returns or throws,
\* or the data cannot be read.
MessageProgress(r) ==
    \/ MessageThrow(r)
    \/ MessageFind(r)
    \/ MessageAllocateUserSeq(r)
    \/ MessageAllocateSessionSeq(r)
    \/ MessageFindFirst(r)
    \/ MessageCreate(r)
    \/ MessageCatch(r)

\* Every storage call returns or throws, and the event loop runs every handler
\* that can go on.
SpecMessagesFair == SpecMessages /\ \A r \in Reqs : WF_vars(MessageProgress(r))

\* Presence: heartbeats and session-ends, the clock and the activity cache.
NextPresence ==
    \/ \E r \in Reqs :
          \/ SessionAliveReceive(r)
          \/ SessionAliveValid(r)
          \/ SessionAliveCatch(r)
          \/ SessionEndReceive(r)
          \/ SessionEndFind(r)
          \/ SessionEndUpdate(r)
          \/ SessionEndCatch(r)
    \/ \E sid \in Sessions : ActivityFlush(sid)
    \/ Tick

SpecPresence == Init /\ [][NextPresence]_vars

\* Delivery: messages and heartbeats while connections come to an end.
NextDelivery ==
    \/ \E r \in Reqs :
          \/ MessageReceive(r)
          \/ MessageFind(r)
          \/ MessageAllocateUserSeq(r)
          \/ MessageAllocateSessionSeq(r)
          \/ MessageFindFirst(r)
          \/ MessageCreate(r)
          \/ SessionAliveReceive(r)
          \/ SessionAliveValid(r)
    \/ \E c \in Leavers : Disconnect(c)

SpecDelivery == Init /\ [][NextDelivery]_vars

\* Versioned-field updates while the broadcast backend comes and goes.
NextBus ==
    \/ \E r \in Reqs :
          \/ UpdateMetadataReceive(r)
          \/ UpdateMetadataFind(r)
          \/ UpdateMetadataWrite(r)
          \/ UpdateMetadataEmit(r)
          \/ UpdateMetadataCatch(r)
    \/ BusFail
    \/ BusRecover

SpecBus == Init /\ [][NextBus]_vars

\* Heartbeats, the cache and the end of the process.  The shutdown hook awaits its
\* flush and every storage call returns, so a flush that stays possible is made.
NextShutdown ==
    \/ \E r \in Reqs :
          \/ SessionAliveReceive(r)
          \/ SessionAliveValid(r)
    \/ \E sid \in Sessions : ActivityFlush(sid)
    \/ Tick
    \/ Shutdown
    \/ \E sid \in Sessions : ShutdownFlush(sid)

SpecShutdown ==
    Init /\ [][NextShutdown]_vars /\ \A sid \in Sessions : WF_vars(ShutdownFlush(sid))

\* Profile updates of two accounts.
NextProfile ==
    \E r \in Reqs :
        \/ ProfileReceive(r)
        \/ ProfileCurrent(r)
        \/ ProfileFindFirst(r)
        \/ ProfileUpdate(r)
        \/ ProfileCatch(r)

SpecProfile == Init /\ [][NextProfile]_vars

\* Blobs: uploads, downloads and deletes.
NextBlobs ==
    \E r \in Reqs :
        \/ BlobUploadReceive(r)
        \/ BlobUploadFind(r)
        \/ BlobUploadPut(r)
        \/ BlobUploadCreate(r)
        \/ BlobUploadCatch(r)
        \/ BlobDownloadReceive(r)
        \/ BlobDownloadFind(r)
        \/ BlobDownloadGet(r)
        \/ BlobDownloadCatch(r)
        \/ BlobDeleteReceive(r)
        \/ BlobDeleteFind(r)
        \/ BlobDeleteRemove(r)
        \/ BlobDeleteRow(r)
        \/ BlobDeleteCatch(r)

SpecBlobs == InitBlobs /\ [][NextBlobs]_vars

---------------------------------------------------------------------------
(* Vocabulary of the properties *)

UpdateKinds == {"update-metadata", "update-state", "settings"}
SocketUpdateKinds == {"update-metadata", "update-state"}
IsUpdate(r) == req[r].kind \in UpdateKinds

\* Two requests address the same versioned field of the same entity.
SameField(p, q) ==
    req[p].kind = req[q].kind /\ req[p].sid = req[q].sid /\ req[p].user = req[q].user

\* The entity the request names exists and belongs to the caller.
Found(r) ==
    IF req[r].kind = "settings" THEN req[r].user \in Accounts
    ELSE SessionFound(req[r].sid, req[r].user)

\* The stored version and value of the field an update request addresses.
StoredVersion(r) ==
    CASE req[r].kind = "update-metadata" -> session[req[r].sid].metadataVersion
      [] req[r].kind = "update-state" -> session[req[r].sid].agentStateVersion
      [] OTHER -> account[req[r].user].settingsVersion
StoredValue(r) ==
    CASE req[r].kind = "update-metadata" -> session[req[r].sid].metadata
      [] req[r].kind = "update-state" -> session[req[r].sid].agentState
      [] OTHER -> account[req[r].user].settings

Done(r) == req[r].pc = "done"
Succeeded(r) == \E i \in DOMAIN req[r].replies : req[r].replies[i].result = "success"
Rejected(r) == \E i \in DOMAIN req[r].replies : req[r].replies[i].result = "version-mismatch"
\* The request passed the early version check: the stored version was its expectedVersion.
ReadFresh(r) == req[r].snap # NoSnap
\* The request's conditional write matched no row.
LostRace(r) == IsUpdate(r) /\ Done(r) /\ ReadFresh(r) /\ ~req[r].wrote /\ ~req[r].failed
EventsOf(r) == {e \in emitted : e.id = r}

\* The requests that address the field of r with the expectedVersion of r.
Rivals(r) == {q \in Reqs : IsUpdate(q) /\ SameField(q, r) /\ req[q].ev = req[r].ev}

---------------------------------------------------------------------------
(* C1 .. C10 *)

\* C1: among the update requests that address one versioned field with one
\* expectedVersion, at most one performs the write and at most one is answered
\* success, and only a request that performed the write is answered success; a
\* write is performed only by a request that read the stored version equal to its
\* expectedVersion; and once all of them have returned without a storage error,
\* exactly one has succeeded if any of them read the stored version equal to the
\* expectedVersion, and none otherwise.
C1_CasExclusive ==
    \A r \in Reqs : IsUpdate(r) =>
        /\ Cardinality({q \in Rivals(r) : req[q].wrote}) <= 1
        /\ Cardinality({q \in Rivals(r) : Succeeded(q)}) <= 1
        /\ Succeeded(r) => req[r].wrote
        /\ req[r].wrote => ReadFresh(r) /\ req[r].snap.version = req[r].ev
        /\ (\A q \in Rivals(r) : Done(q) /\ ~req[q].failed) =>
              Cardinality({q \in Rivals(r) : Succeeded(q)}) =
                 (IF \E q \in Rivals(r) : ReadFresh(q) THEN 1 ELSE 0)

\* Two requests raced for the same field with the same expectedVersion, both read
\* the version they expected, one won and the other was told version-mismatch.
C1_Witness ==
    \E p, q \in Reqs :
        /\ p # q /\ IsUpdate(p) /\ q \in Rivals(p)
        /\ ReadFresh(p) /\ ReadFresh(q)
        /\ Succeeded(p) /\ LostRace(q) /\ Rejected(q)

\* C2 (as claimed): an update-metadata or update-state request whose conditional
\* write matched no row is answered version-mismatch with the stored value and
\* version: a version other than its own expectedVersion, and the value the
\* winner of the race wrote.
C2_ConflictCarriesCurrent ==
    \A r \in Reqs : (LostRace(r) /\ req[r].kind \in SocketUpdateKinds) =>
        /\ Len(req[r].replies) = 1
        /\ req[r].replies[1].result = "version-mismatch"
        /\ req[r].replies[1].version # req[r].ev
        /\ \E w \in Rivals(r) : req[w].wrote /\ req[r].replies[1].value = req[w].value

\* C3: within one scope the values the allocator has returned are strictly
\* increasing in the order of its increments, and no two requests hold the same
\* account-scope or the same session-scope number.
C3_SeqMonotonic ==
    /\ \A k \in DOMAIN issued : \A i, j \in DOMAIN issued[k] :
          i < j => issued[k][i] < issued[k][j]
    /\ \A p, q \in Reqs :
          (p # q /\ req[p].user = req[q].user /\ req[p].updSeq # 0) => req[p].updSeq # req[q].updSeq
    /\ \A p, q \in Reqs :
          (p # q /\ req[p].sid = req[q].sid /\ req[p].msgSeq # 0) => req[p].msgSeq # req[q].msgSeq

\* A message command and a field update both hold account-scope numbers: the
\* account's counter has issued two values to two different handlers.
C3_Witness ==
    /\ \E p, q \in Reqs : /\ req[p].kind = "message" /\ IsUpdate(q)
                          /\ req[p].updSeq # 0 /\ req[q].updSeq # 0
    /\ Len(issued["a1"]) >= 2

\* C4: every update handed to emitUpdate describes a write that has committed:
\* the request that emitted it performed its write, the stored version of the
\* field is at least the version the update carries, a new-message update has its
\* message row and a new-session update its session row; a request that performed
\* no write has emitted nothing.
C4_EmitAfterCommit ==
    /\ \A e \in emitted :
          /\ req[e.id].wrote
          /\ e.kind = "new-message" =>
                \E m \in messages : m.id = e.id /\ m.sid = e.sid /\ m.seq = e.version
          /\ e.kind = "new-session" =>
                \E c \in created : c.id = e.sid /\ c.accountId = e.user /\ c.metadata = e.value
          /\ e.kind \notin {"new-message", "new-session"} =>
                /\ IsUpdate(e.id) /\ e.version = req[e.id].ev + 1 /\ e.value = req[e.id].value
                /\ StoredVersion(e.id) >= e.version
    /\ \A r \in Reqs : ~req[r].wrote => EventsOf(r) = {}

\* A field update and a new-message update have both been emitted.
C4_Witness ==
    /\ \E e \in emitted : e.kind = "new-message"
    /\ \E e \in emitted : e.kind \in {"update-session-metadata", "update-session-state", "update-account"}

\* The message commands for one (sessionId, localId).
Submissions(sid, l) ==
    {r \in Reqs : req[r].kind = "message" /\ req[r].sid = sid /\ req[r].localId = l}
StoredFor(sid, l) == {m \in messages : m.sid = sid /\ m.localId = l}
NewMessagesFor(sid, l) ==
    {e \in emitted : e.kind = "new-message" /\ e.sid = sid /\ e.value = l}
First(S) == CHOOSE r \in S : \A q \in S : r <= q

InBody(r) ==
    req[r].kind = "message" /\
    req[r].pc \in {"findUnique", "allocateUserSeq", "allocateSessionSeq", "findFirst", "transaction"}

\* C6: of two message commands received on one connection, the later one is
\* inside its handler body, or past it, only when the earlier one has returned.
C6_BodiesInArrivalOrder ==
    \A p, q \in Reqs :
        (/\ p < q /\ req[p].kind = "message" /\ req[q].kind = "message"
         /\ req[p].conn = req[q].conn /\ (InBody(q) \/ Done(q))) => Done(p)

\* A second message command of a connection waits while the first is between
\* two storage calls of its body.
C6_Witness ==
    \E p, q \in Reqs :
        /\ p < q /\ req[p].kind = "message" /\ req[q].kind = "message"
        /\ req[p].conn = req[q].conn
        /\ req[p].pc = "transaction" /\ req[q].pc = "wait"

\* The versions of all versioned fields.
Versions ==
    <<[s \in Sessions |-> session[s].metadataVersion],
      [s \in Sessions |-> session[s].agentStateVersion],
      [a \in Accounts |-> account[a].settingsVersion]>>
AcceptedWrites(kind, sid, user) ==
    {r \in Reqs : req[r].kind = kind /\ req[r].sid = sid /\ req[r].user = user /\ req[r].wrote}

C7_State ==
    /\ \A s \in Sessions :
          /\ session[s].metadataVersion =
                Cardinality(AcceptedWrites("update-metadata", s, session[s].accountId))
          /\ session[s].agentStateVersion =
                Cardinality(AcceptedWrites("update-state", s, session[s].accountId))
    /\ \A a \in Accounts :
          account[a].settingsVersion = Cardinality(AcceptedWrites("settings", None, a))
C7_Step ==
    /\ \A s \in Sessions :
          /\ session'[s].metadataVersion \in {session[s].metadataVersion, session[s].metadataVersion + 1}
          /\ session'[s].agentStateVersion \in {session[s].agentStateVersion, session[s].agentStateVersion + 1}
    /\ \A a \in Accounts :
          account'[a].settingsVersion \in {account[a].settingsVersion, account[a].settingsVersion + 1}
    /\ \A r \in Reqs :
          /\ (req'[r].wrote /\ ~req[r].wrote /\ IsUpdate(r)) => StoredVersion(r)' = StoredVersion(r) + 1
          /\ (IsUpdate(r) /\ Rejected(r)' /\ ~Rejected(r)) => Versions' = Versions
    /\ Versions' # Versions =>
          \E r \in Reqs : IsUpdate(r) /\ req'[r].wrote /\ ~req[r].wrote

\* C7: the version of every versioned field is the number of accepted writes of
\* that field (0 at the start); a step changes it by 0 or by 1, by exactly 1 when
\* a write of the field is accepted, by 0 when a request is rejected, and never
\* without an accepted write.
C7_VersionCounts == [](C7_State) /\ [][C7_Step]_vars

\* One write of a field was accepted and another request on the field was
\* rejected: the field is at version 1.
C7_Witness ==
    \E p, q \in Reqs :
        /\ p # q /\ IsUpdate(p) /\ SameField(p, q)
        /\ req[p].wrote /\ Rejected(q) /\ StoredVersion(p) = 1

\* C8: when a request with expectedVersion 0 reads its field at stored version 1
\* (an update with expectedVersion 0 has committed before), it is answered
\* version-mismatch with version 1 and the value that update wrote, it performs
\* no write, and the step leaves the stored rows unchanged.
C8_ScenarioA ==
    [][\A y \in Reqs :
         (/\ IsUpdate(y) /\ req[y].pc = "findUnique" /\ req'[y].pc # "findUnique"
          /\ ~req'[y].failed /\ Found(y) /\ req[y].ev = 0 /\ StoredVersion(y) = 1) =>
            /\ req'[y].pc = "done" /\ ~req'[y].wrote
            /\ Len(req'[y].replies) = 1
            /\ req'[y].replies[1].result = "version-mismatch"
            /\ req'[y].replies[1].version = 1
            /\ \E x \in Reqs : /\ x # y /\ SameField(x, y) /\ req[x].wrote /\ req[x].ev = 0
                                /\ req'[y].replies[1].value = req[x].value
            /\ session' = session /\ account' = account
      ]_vars

\* X's update with expectedVersion 0 succeeded, Y's later one with expectedVersion 0
\* was answered version-mismatch with version 1 and X's value, and the field
\* still holds X's value at version 1.
C8_Witness ==
    \E x, y \in Reqs :
        /\ x # y /\ IsUpdate(x) /\ SameField(x, y) /\ req[x].ev = 0 /\ req[y].ev = 0
        /\ Succeeded(x) /\ Done(y) /\ ~ReadFresh(y)
        /\ req[y].replies = <<Reply("version-mismatch", 1, req[x].value)>>
        /\ StoredVersion(y) = 1 /\ StoredValue(y) = req[x].value

\* C9 (as claimed): every update-metadata and update-state request that has
\* returned has received exactly one reply, which is success, version-mismatch or
\* error, and it is error when the session is unknown or not the account's.
C9_AlwaysOneReply ==
    \A r \in Reqs : (req[r].kind \in SocketUpdateKinds /\ Done(r)) =>
        /\ Len(req[r].replies) = 1
        /\ req[r].replies[1].result \in {"success", "version-mismatch", "error"}
        /\ ~Found(r) => req[r].replies[1] = ErrorReply

\* The value of each versioned field when its row is created.
InitialValue(kind) == IF kind = "update-metadata" THEN "m0" ELSE "null"

\* The field r addresses holds the value of the accepted write that produced its
\* version (its initial value at version 0).
HoldsAcceptedValue(r) ==
    IF StoredVersion(r) = 0 THEN StoredValue(r) = InitialValue(req[r].kind)
    ELSE \E w \in Reqs : /\ IsUpdate(w) /\ SameField(w, r) /\ req[w].wrote /\ ~Rejected(w)
                         /\ req[w].ev + 1 = StoredVersion(r) /\ StoredValue(r) = req[w].value

\* The field r addresses holds what it held before r, or what another request wrote.
HoldsAcceptedValueOfOthers(r) ==
    IF StoredVersion(r) = 0 THEN StoredValue(r) = InitialValue(req[r].kind)
    ELSE \E w \in Reqs : /\ w # r /\ IsUpdate(w) /\ SameField(w, r) /\ req[w].wrote
                         /\ req[w].ev + 1 = StoredVersion(r) /\ StoredValue(r) = req[w].value

C10_State ==
    \A r \in Reqs : IsUpdate(r) =>
        /\ Rejected(r) => ~req[r].wrote /\ req[r].updSeq = 0 /\ EventsOf(r) = {}
        /\ Found(r) => HoldsAcceptedValue(r)
C10_Step ==
    \A r \in Reqs :
        (IsUpdate(r) /\ ~Done(r) /\ Done(r)' /\ Rejected(r)') =>
            UNCHANGED <<created, session, account, userSeq, sessionSeq, messages, emitted, issued, process, blobstore>>

\* C10: an update request answered version-mismatch has performed no write,
\* holds no sequence number and has emitted no update; every field holds the value
\* and version of an accepted write, never of a rejected request; and the step
\* that answers version-mismatch leaves the stored rows, the sequence counters
\* and the emitted updates unchanged.
C10_ConflictNoEffect == [](C10_State) /\ [][C10_Step]_vars

\* A request was rejected after its conditional write matched no row; the field
\* holds the winner's value and the account counter has issued one number.
C10_Witness ==
    \E w, q \in Reqs :
        /\ LostRace(q) /\ Rejected(q) /\ w \in Rivals(q) /\ Succeeded(w)
        /\ StoredValue(q) = req[w].value /\ StoredVersion(q) = req[q].ev + 1
        /\ userSeq[req[q].user] = 1

---------------------------------------------------------------------------
(* C11 .. C20 *)

\* The step is one that request r takes itself (a waiter woken by the holder of
\* the lock does not take the step that wakes it).
Moves(r) == req'[r] # req[r] /\ req[r].pc # "wait"
Malformed(r) == req[r].bad # None

\* C11: a malformed command (update-metadata / update-state without data, without
\* sid, with a wrong value type or a wrong expectedVersion type; session-alive or
\* session-end without a numeric time; message with fields missing) changes
\* nothing in the store, allocates no sequence number and emits no event, at any of
\* its steps; and once it has ended, an update command that passed a callback has
\* been answered with the generic error, exactly once, every other one with nothing.
C11_State ==
    \A r \in Reqs : (Malformed(r) /\ Done(r)) =>
        /\ EventsOf(r) = {} /\ ~req[r].wrote
        /\ req[r].updSeq = 0 /\ req[r].msgSeq = 0
        /\ \A m \in messages : m.id # r
        /\ \A e \in ephemerals \cup routed : e.id # r
        /\ req[r].replies = IF req[r].kind \in SocketUpdateKinds /\ ~req[r].noack
                               THEN <<ErrorReply>> ELSE <<>>
C11_Step ==
    \A r \in Reqs : (Moves(r) /\ req'[r].bad # None) =>
        UNCHANGED <<created, session, account, userSeq, sessionSeq, messages, emitted, issued,
                    presence, routed, process, blobstore>>
C11_MalformedNoEffect == [](C11_State) /\ [][C11_Step]_vars

\* Witness of C11: a malformed update-metadata has been answered with the error
\* while a well-formed command has stored something.
C11_Witness ==
    \E r, q \in Reqs :
        /\ Malformed(r) /\ Done(r) /\ req[r].replies = <<ErrorReply>>
        /\ req[q].wrote

PresenceKinds == {"session-alive", "session-end"}
IsPresence(r) == req[r].kind \in PresenceKinds /\ ~Malformed(r)
EphemeralsOf(r) == {e \in ephemerals : e.id = r}
\* The accounts some connection is authenticated as.
ConnectedUsers == {ConnUser[c] : c \in Conns}
\* The session row and the activity record as they are before any command.
UntouchedSession(s) ==
    /\ session[s].lastActiveAt = 0 /\ session[s].active /\ session[s].lastMessageAt = "null"
    /\ session[s].metadataVersion = 0 /\ session[s].agentStateVersion = 0
    /\ activity[s] = NoActivity

\* C12: a session-alive or session-end that names a session that does not exist or
\* that belongs to another account ends without a trace: it has emitted no
\* ephemeral, written nothing, been answered nothing, and a session no connected
\* account owns has its row and its (absent) activity record as at the start.
C12_UnknownSessionSilent ==
    /\ \A r \in Reqs : (IsPresence(r) /\ ~SessionFound(req[r].sid, req[r].user)) =>
          /\ EphemeralsOf(r) = {} /\ EventsOf(r) = {}
          /\ \A e \in routed : e.id # r
          /\ ~req[r].wrote /\ req[r].replies = <<>>
          /\ req[r].pc \in {"isSessionValid", "findUnique", "done"}
    /\ \A s \in Sessions : session[s].accountId \notin ConnectedUsers => UntouchedSession(s)

\* Witness of C12: a heartbeat for another account's session and a session-end for
\* a session that does not exist have both been looked up and have ended.
C12_Witness ==
    \E r, q \in Reqs :
        /\ req[r].kind = "session-alive" /\ req[r].sid = "s2" /\ req[r].looked /\ Done(r)
        /\ req[q].kind = "session-end" /\ req[q].sid = "s0" /\ req[q].looked /\ Done(q)

IsHeartbeat(r) == req[r].kind = "session-alive" /\ ~Malformed(r)
\* The heartbeat passed the cutoff, its session was found valid, and it has ended.
Accepted(r) ==
    /\ IsHeartbeat(r) /\ Done(r) /\ req[r].looked
    /\ SessionFound(req[r].sid, req[r].user)

\* C13: a heartbeat whose time is later than the clock at its arrival goes on with
\* that clock reading in place of its time, any other with its own time; one whose
\* time is more than ten minutes before the clock at its arrival ends at once,
\* never looked up, with no event; an accepted heartbeat has emitted one ephemeral
\* that carries the time it went on with; and the last-seen value the cache holds
\* is the time an accepted heartbeat of that session went on with.
C13_HeartbeatClamped ==
    /\ \A r \in Reqs : IsHeartbeat(r) =>
          /\ req[r].time > req[r].at => req[r].t = req[r].at
          /\ req[r].time <= req[r].at => req[r].t = req[r].time
          /\ req[r].time < req[r].at - TenMinutes =>
                Done(r) /\ ~req[r].looked /\ EphemeralsOf(r) = {}
          /\ req[r].time >= req[r].at - TenMinutes /\ Done(r) /\ ~req[r].failed => req[r].looked
          /\ \A e \in EphemeralsOf(r) : e.activeAt = req[r].t /\ e.active /\ Accepted(r)
          /\ Accepted(r) => Cardinality(EphemeralsOf(r)) = 1
    /\ \A s \in Sessions : activity[s].lastSeenAt # 0 =>
          \E r \in Reqs : Accepted(r) /\ req[r].sid = s /\ req[r].t = activity[s].lastSeenAt

\* Witness of C13: a heartbeat from the future was accepted, and the cache and its
\* ephemeral hold the clock reading of its arrival; another one, too old, was dropped.
C13_Witness ==
    \E r, q \in Reqs :
        /\ Accepted(r) /\ req[r].time > req[r].at
        /\ activity[req[r].sid].lastSeenAt = req[r].at
        /\ \E e \in EphemeralsOf(r) : e.activeAt = req[r].at
        /\ IsHeartbeat(q) /\ Done(q) /\ req[q].time < req[q].at - TenMinutes

\* The step is a durable write of session s's activity by the cache.
CacheWrites(s) == activity'[s].flushedOn # activity[s].flushedOn \/ activity'[s].lastFlushedAt # activity[s].lastFlushedAt

\* C14: an accepted heartbeat has emitted its ephemeral by the time it ends,
\* whatever the cache has or has not written; the step that ends a heartbeat
\* leaves the session rows alone and, when it accepts, puts the heartbeat's time in
\* the cache and adds the ephemeral; the session's lastActiveAt is written from
\* the cache only by a step that no request takes, which comes no sooner than one
\* debounce interval after the previous such write for the session and writes
\* the last time queued.
C14_State ==
    \A r \in Reqs : Accepted(r) => \E e \in EphemeralsOf(r) : e.sid = req[r].sid /\ e.thinking = req[r].thinking
C14_Step ==
    /\ \A r \in Reqs : (IsHeartbeat(r) /\ Moves(r)) =>
          /\ UNCHANGED session
          /\ \A s \in Sessions : ~CacheWrites(s)
          /\ (req'[r].looked /\ SessionFound(req[r].sid, req[r].user)) =>
                /\ activity'[req[r].sid].lastSeenAt = req[r].t
                /\ \E e \in ephemerals' \ ephemerals : e.id = r
    /\ \A s \in Sessions : CacheWrites(s) =>
          /\ req' = req
          /\ activity[s].flushedOn = 0 \/ now - activity[s].flushedOn >= DebounceInterval
          /\ session'[s].lastActiveAt = activity[s].lastSeenAt
          /\ activity'[s].lastFlushedAt = activity[s].lastSeenAt /\ activity'[s].flushedOn = now
    /\ \A s \in Sessions : session'[s].lastActiveAt # session[s].lastActiveAt =>
          \/ CacheWrites(s)
          \/ \E r \in Reqs : req[r].kind = "session-end" /\ Moves(r)
RoutesOf(r) == {e \in routed : e.id = r}
Recipients(e) == e.to \cup e.peerTo

\* C15: the new-message update of a message command is routed with the command's
\* own connection as the one to skip, and reaches that connection neither in the
\* process that emitted it nor through a peer.
C15_NoEchoToSender ==
    \A r \in Reqs : req[r].kind = "message" =>
        \A e \in RoutesOf(r) : e.durable /\ e.skip = req[r].conn /\ req[r].conn \notin Recipients(e)

\* Witness of C15: a message sent on the account-scoped connection c1 to s1 went
\* to the session-scoped c2 and to peers while c1, still registered, got nothing.
C15_Witness ==
    \E r \in Reqs : \E e \in RoutesOf(r) :
        /\ req[r].kind = "message" /\ req[r].conn = "c1" /\ "c1" \in registered /\ ~e.orphan
        /\ "c2" \in e.to /\ e.peerTo # {} /\ "c1" \notin Recipients(e)

\* The kinds of event that concern one session.
SessionEventKinds == {"new-message", "update-session-metadata", "update-session-state"}
\* The registered connections of the account that the event is for.
Audience(user, kind, sid, skip) ==
    {c \in registered :
        /\ ConnAccount[c] = user /\ c # skip
        /\ kind \in SessionEventKinds =>
              \/ ConnScope[c].type = "account-scoped"
              \/ ConnScope[c].type = "session-scoped" /\ ConnScope[c].sessionId = sid}

\* C16: when an event is routed, it goes to exactly these connections: for an
\* event about a session (new-message, metadata or agent-state update), the
\* registered connections of the account that are account-scoped or scoped to that
\* session, less the connection to skip; for an account-wide event (session
\* activity, account update, new session), the registered connections of the
\* account, of any scope.  No recipient belongs to another account, and none was
\* out of the registry when the event was routed.
C16_State ==
    \A e \in routed : \A c \in Recipients(e) : ConnAccount[c] = e.user /\ c # e.skip
C16_Step ==
    \A e \in routed' \ routed :
        LET ev == CHOOSE x \in (emitted' \cup ephemerals') : x.id = e.id
        IN  /\ Recipients(e) = Audience(ev.user, ev.kind, ev.sid, IF e.durable THEN ev.skip ELSE None)
            /\ Recipients(e) \subseteq registered
C16_ExactRecipients == [](C16_State) /\ [][C16_Step]_vars

\* Witness of C16: with c1 out of the registry, a new-message update for s1 skipped
\* its sender c2 and went to the peers c5 and c6 alone, and a session-activity
\* event went to every remaining connection of a1.
C16_Witness ==
    \E e, f \in routed :
        /\ "c1" \notin registered
        /\ e.durable /\ e.skip = "c2" /\ Recipients(e) = {"c5", "c6"}
        /\ ~f.durable /\ Recipients(f) = {"c2", "c4", "c5", "c6"}

\* The next step of the message handler of request r, whichever it is.
MessageStep(r) ==
    \/ MessageFind(r)
    \/ MessageAllocateUserSeq(r)
    \/ MessageAllocateSessionSeq(r)
    \/ MessageFindFirst(r)
    \/ MessageCreate(r)
\* The connections that stay for the whole run and that a new-message update of
\* account a1 about session sid is for.
Stayers(sid) ==
    {c \in AllConns \ Leavers :
        /\ ConnAccount[c] = "a1"
        /\ ConnScope[c].type = "account-scoped" \/ ConnScope[c] = SessionScoped(sid)}

\* C18: a message command whose connection has left the registry is not held up:
\* inside its handler body its next step can always be taken; and when its update
\* was routed after the connection had gone, the message is stored, the update
\* has its sequence numbers, it went to the connections that were still there,
\* not to the one that left, and the command did not fail.
C18_DisconnectDoesNotCancel ==
    /\ \A r \in Reqs : (InBody(r) /\ req[r].conn \notin registered) => ENABLED MessageStep(r)
    /\ \A e \in routed : e.orphan =>
          /\ req[e.id].wrote /\ ~req[e.id].failed /\ Done(e.id)
          /\ \E m \in messages : m.id = e.id /\ m.seq = req[e.id].msgSeq
          /\ \E u \in emitted : u.id = e.id /\ u.seq = req[e.id].updSeq
          /\ Stayers(req[e.id].sid) \subseteq Recipients(e)
          /\ e.skip \notin Recipients(e)

\* Witness of C18: c1 left the registry while its message command was under way;
\* the message is stored and its update reached c2 and the peers.
C18_Witness ==
    \E e \in routed :
        /\ e.orphan /\ e.skip = "c1" /\ req[e.id].wrote
        /\ "c2" \in e.to /\ {"c5", "c6"} \subseteq e.peerTo

\* The connections of the emitting process that an update of a1 about session sid
\* is for.
LocalAudience(sid) ==
    {c \in AllConns :
        /\ ConnProc[c] = ThisProc /\ ConnAccount[c] = "a1"
        /\ ConnScope[c].type = "account-scoped" \/ ConnScope[c] = SessionScoped(sid)}

\* C19: an update-metadata whose update was routed while the broadcast backend
\* was unreachable reached the matching connections of its own process and no
\* peer; the command succeeded, and the field still holds an accepted write at a
\* version past the one the command expected: the write was not taken back.
C19_PublishFailureKeepsWrite ==
    \A e \in routed : ~e.published =>
        /\ e.peerTo = {} /\ e.to = LocalAudience(req[e.id].sid) /\ e.to # {}
        /\ req[e.id].wrote /\ ~req[e.id].failed
        /\ req[e.id].replies = <<Reply("success", req[e.id].ev + 1, req[e.id].value)>>
        /\ StoredVersion(e.id) > req[e.id].ev
        /\ HoldsAcceptedValue(e.id)

\* Witness of C19: the backend is down, an update-metadata was routed unpublished to
\* c1 and c2, and its value is the one stored, at version 1.
C19_Witness ==
    \E e \in routed :
        /\ ~e.published /\ ~busUp /\ e.to = {"c1", "c2"}
        /\ StoredVersion(e.id) = 1 /\ StoredValue(e.id) = req[e.id].value

---------------------------------------------------------------------------
(* C21 .. C30 *)

\* C21: once the process is shutting down, a session whose cached last-seen value
\* has not been written gets it written: eventually nothing is pending for the
\* session and its row holds the last-seen value of the cache.
C21_ShutdownFlushesPending ==
    \A s \in Sessions :
        []((~process.running /\ Pending(s))
              => <>(~Pending(s) /\ session[s].lastActiveAt = activity[s].lastSeenAt))

\* The shutdown wrote the time of an accepted heartbeat that the debounced write
\* had not written.
C21_Witness ==
    /\ ~process.running
    /\ \E s \in process.flushed :
          /\ ~Pending(s)
          /\ session[s].lastActiveAt = activity[s].lastSeenAt
          /\ \E r \in Reqs : Accepted(r) /\ req[r].sid = s /\ req[r].t = activity[s].lastSeenAt

\* Request r ended with the one reply `result`.
Answered(r, result) ==
    req[r].pc = "done" /\ Len(req[r].replies) = 1 /\ req[r].replies[1].result = result
\* Upload u stored its blob and was told so.
Uploaded(u) == req[u].kind = "blob-upload" /\ Answered(u, "200")
\* Request q asks for the blob of `blobId` through session sid as account user.
Targets(q, blobId, sid, user) == req[q].blobId = blobId /\ req[q].sid = sid /\ req[q].user = user
\* Some delete has begun to take the blob away.
DeleteBegun(blobId) ==
    \E x \in Reqs : req[x].kind = "blob-delete" /\ req[x].blobId = blobId /\ req[x].wrote
\* Download d arrived after request p had ended, and has ended without a storage failure.
LaterDownload(d, p) ==
    req[d].kind = "blob-download" /\ p \in req[d].after /\ req[d].pc = "done" /\ ~req[d].failed

\* C23: a download that arrives after a successful upload, asks for the returned
\* blob id through the same session as the same account, and ends without a storage
\* failure while no delete has touched the blob, is answered 200 with the uploaded
\* bytes, the uploaded mime type and the decimal of the uploaded size; a download of
\* a blob that arrives after a delete of that blob was answered 200 is answered 404.
C23_BlobLifecycle ==
    /\ \A u, d \in Reqs :
          /\ Uploaded(u) /\ LaterDownload(d, u)
          /\ Targets(d, req[u].blobId, req[u].sid, req[u].user)
          /\ ~DeleteBegun(req[u].blobId)
          => /\ Answered(d, "200")
             /\ req[d].body = req[u].body
             /\ req[d].mimeType = req[u].mimeType
             /\ req[d].sizeHeader = SizeToString(parseInt(req[u].sizeHeader))
    /\ \A x, d \in Reqs :
          /\ req[x].kind = "blob-delete" /\ Answered(x, "200")
          /\ LaterDownload(d, x) /\ req[d].blobId = req[x].blobId
          => Answered(d, "404")

\* An upload was answered 200 and a later download of its blob returned its bytes.
C23_Witness ==
    \E u, d \in Reqs :
        /\ Uploaded(u) /\ LaterDownload(d, u)
        /\ Targets(d, req[u].blobId, req[u].sid, req[u].user)
        /\ Answered(d, "200") /\ req[d].body = req[u].body

\* The durable updates about the field that request r addresses.
FieldEvents(r) ==
    {e \in emitted : IsUpdate(e.id) /\ SameField(e.id, r)}

C24_State ==
    \A r \in Reqs : (IsUpdate(r) /\ Succeeded(r)) =>
        /\ Len(req[r].replies) = 1
        /\ req[r].replies[1].version = req[r].ev + 1
        /\ Cardinality(EventsOf(r)) = 1
        /\ \A e \in EventsOf(r) :
              /\ e.value = req[r].value
              /\ e.version = req[r].ev + 1
              /\ e.seq = req[r].updSeq /\ e.seq # 0
              /\ e.user = req[r].user
              /\ \E i \in DOMAIN issued[req[r].user] : issued[req[r].user][i] = e.seq
C24_Step ==
    \A r \in Reqs : IsUpdate(r) =>
        /\ (req'[r].wrote /\ ~req[r].wrote) =>
              /\ StoredVersion(r)' = req[r].ev + 1
              /\ StoredValue(r)' = req[r].value
              /\ req'[r].updSeq = 0
        /\ (req'[r].updSeq # req[r].updSeq) =>
              /\ req[r].wrote
              /\ req'[r].updSeq = userSeq[req[r].user] + 1
              /\ userSeq'[req[r].user] = req'[r].updSeq
              /\ Succeeded(r)' /\ ~Succeeded(r)
              /\ EventsOf(r)' # {} /\ EventsOf(r) = {}

\* C24: an update request that is answered success has been answered once, with
\* version expectedVersion + 1, and has emitted exactly one durable update, which
\* carries the value it wrote, version expectedVersion + 1 and the account-scope
\* number the allocator gave it; the write step leaves the stored version at
\* expectedVersion + 1 with the written value; and the number is taken, the update
\* emitted and the reply sent in one later step, by a request that has written.
C24_OneUpdatePerWrite == [](C24_State) /\ [][C24_Step]_vars

\* Two writes of one field have succeeded, each with its update.
C24_Witness ==
    \E p, q \in Reqs :
        /\ p # q /\ IsUpdate(p) /\ SameField(p, q)
        /\ Succeeded(p) /\ Succeeded(q)
        /\ EventsOf(p) # {} /\ EventsOf(q) # {}

\* C25 (as claimed): of two durable updates about one versioned field, the one with
\* the larger account-scope sequence number carries the larger version.
C25_SeqOrderIsVersionOrder ==
    \A r \in Reqs : \A e1, e2 \in FieldEvents(r) :
        e1.seq < e2.seq => e1.version < e2.version

\* C26 (as claimed): a message command that has ended without storing a message
\* holds no account-scope and no session-scope sequence number, and every number
\* the two counters of a session of the account have issued is on a stored message
\* and on a new-message update once the commands have ended.
C26_NoSeqGap ==
    /\ \A r \in Reqs :
          (req[r].kind = "message" /\ Done(r) /\ ~req[r].wrote) =>
              req[r].updSeq = 0 /\ req[r].msgSeq = 0
    /\ (\A r \in Reqs : req[r].pc \in {"idle", "done"}) =>
          \A sid \in Sessions : \A i \in DOMAIN issued[sid] :
              /\ \E m \in messages : m.sid = sid /\ m.seq = issued[sid][i]
              /\ \E e \in emitted : e.kind = "new-message" /\ e.sid = sid /\ e.version = issued[sid][i]

\* C27 (as claimed): at most one message row is stored for one session id and one
\* localId that is not null, whichever connections submitted it.
C27_OneRowPerLocalId ==
    \A sid \in Sessions, l \in LocalIds \ {"null"} : Cardinality(StoredFor(sid, l)) <= 1

\* The sessions owned by an account none of whose connections is in the run.
ForeignSessions == {s \in Sessions : session[s].accountId \notin ConnectedUsers}
\* The socket commands.
SocketKinds == {"update-metadata", "update-state", "message", "session-alive", "session-end"}

\* C28: a session owned by another account than the one the connections are
\* authenticated as keeps its row as at the start (values, versions, times), has
\* no message, has issued no session-scope number, has no activity record, and no
\* durable update or ephemeral names it; a command that names it has written
\* nothing, holds no sequence number and has emitted nothing.
C28_NoCrossAccountEffect ==
    \A s \in ForeignSessions :
        /\ UntouchedSession(s)
        /\ session[s].metadata = "m0" /\ session[s].agentState = "null"
        /\ sessionSeq[s] = 0 /\ issued[s] = <<>>
        /\ \A m \in messages : m.sid # s
        /\ \A e \in emitted \cup ephemerals : e.sid # s
        /\ \A r \in Reqs : (req[r].kind \in SocketKinds /\ req[r].sid = s) =>
              /\ ~req[r].wrote /\ req[r].updSeq = 0 /\ req[r].msgSeq = 0
              /\ EventsOf(r) = {} /\ EphemeralsOf(r) = {}
              /\ \A e \in routed : e.id # r

\* A message and a versioned-field update that name another account's session have
\* both been looked up and have ended.
C28_Witness ==
    \E p, q \in Reqs :
        /\ req[p].kind = "message" /\ req[q].kind \in SocketUpdateKinds
        /\ req[p].sid \in ForeignSessions /\ req[q].sid \in ForeignSessions
        /\ Done(p) /\ Done(q)

\* Request r is a message command that stored its message.
Stored(r) == req[r].kind = "message" /\ req[r].wrote

\* C29: of two message commands that arrived on one connection for one session and
\* stored their messages, the one that arrived first has the smaller session-scope
\* number and the smaller account-scope number; the stored row of each carries its
\* session-scope number and its new-message update its account-scope number.
C29_AppendOrder ==
    /\ \A p, q \in Reqs :
          (/\ p < q /\ Stored(p) /\ Stored(q)
           /\ req[p].conn = req[q].conn /\ req[p].sid = req[q].sid) =>
              /\ req[p].msgSeq < req[q].msgSeq
              /\ req[p].updSeq < req[q].updSeq
    /\ \A r \in Reqs : Stored(r) =>
          /\ \E m \in messages : m.id = r /\ m.sid = req[r].sid /\ m.seq = req[r].msgSeq
          /\ \A m \in messages : m.id = r => m.seq = req[r].msgSeq
          /\ \E e \in EventsOf(r) : e.kind = "new-message" /\ e.seq = req[r].updSeq
          /\ \A e \in EventsOf(r) : e.seq = req[r].updSeq /\ e.version = req[r].msgSeq

\* Two messages of one connection for one session are stored, the second received
\* while the first was in flight.
C29_Witness ==
    \E p, q \in Reqs :
        /\ p < q /\ Stored(p) /\ Stored(q)
        /\ req[p].conn = req[q].conn /\ req[p].sid = req[q].sid
        /\ req[p].msgSeq = 1 /\ req[q].msgSeq = 2

\* The lock of every connection holds the message commands of the connection that
\* have not ended, in arrival order: the first is in its body, the others wait.
C30_State ==
    /\ \A c \in Conns : \A i \in DOMAIN lock[c] :
          /\ req[lock[c][i]].kind = "message" /\ req[lock[c][i]].conn = c
          /\ i = 1 => InBody(lock[c][i])
          /\ i > 1 => req[lock[c][i]].pc = "wait" /\ lock[c][i - 1] < lock[c][i]
    /\ \A r \in Reqs : req[r].kind = "message" =>
          (Done(r) <=> \A i \in DOMAIN lock[req[r].conn] : lock[req[r].conn][i] # r)

\* C30: a message command that has ended (stored, returned early, or failed) is no
\* longer in the lock of its connection, whose first entry is the one command in
\* its body; and every message command received ends: from some point on, all
\* the message commands that were received have ended.
C30_LockReleased ==
    /\ [](C30_State)
    /\ <>[](\A r \in Reqs : req[r].kind = "message" => Done(r))

\* A command that waited for the lock has ended after the holder failed.
C30_Witness ==
    \E p, q \in Reqs :
        /\ p < q /\ req[p].kind = "message" /\ req[q].kind = "message"
        /\ req[p].conn = req[q].conn
        /\ req[p].failed /\ Done(p) /\ Done(q) /\ req[q].wrote
        /\ lock[req[p].conn] = <<>>

\* C22 (as claimed): no two accounts hold the same username, and a profile request
\* whose username another account holds when its update is made is answered
\* username-taken and has written nothing.
C22_UsernamesUnique ==
    /\ \A a, b \in Accounts :
          a # b /\ account[a].username # "null" => account[a].username # account[b].username
    /\ \A r \in Reqs :
          req[r].kind = "profile" /\ req[r].taken
             => /\ ~req[r].wrote
                /\ req[r].replies = <<Reply("username-taken", -1, None)>>

\* C17 (as claimed): a versioned-field update or message command one of whose
\* storage calls threw has emitted nothing, has (when acknowledged) been answered
\* with the generic error and nothing else, and has left no trace in the store:
\* it has written no field and no message.
C17_FailureLeavesNoTrace ==
    \A r \in Reqs : (req[r].failed /\ req[r].kind \in UpdateKinds \cup {"message"}) =>
        /\ EventsOf(r) = {}
        /\ IsUpdate(r) => req[r].replies = <<ErrorReply>>
        /\ ~req[r].wrote
        /\ \A m \in messages : m.id # r
        /\ IsUpdate(r) /\ Found(r) => HoldsAcceptedValueOfOthers(r)

\* C20 (as claimed): the version-mismatch reply of POST /v1/account/settings after
\* a conditional write that matched no row carries the settings value and the
\* settingsVersion the re-fetch reads.
C20_RefetchReplyIsStored ==
    [][\A r \in Reqs :
         (req[r].kind = "settings" /\ req[r].pc = "refetch" /\ req'[r].pc = "done" /\ ~req'[r].failed) =>
            req'[r].replies =
               <<Reply("version-mismatch", account[req[r].user].settingsVersion,
                       account[req[r].user].settings)>>
      ]_vars

---------------------------------------------------------------------------
(* C31 .. C36 *)

\* The versioned fields of session s, with their versions.
VersionedFields(s) ==
    <<session[s].metadata, session[s].metadataVersion, session[s].agentState, session[s].agentStateVersion>>

C31_State ==
    /\ \A e \in ephemerals :
          /\ DOMAIN e = {"kind", "user", "sid", "active", "activeAt", "thinking", "id"}
          /\ e.kind = "activity"
          /\ req[e.id].kind \in PresenceKinds
    /\ \A r \in Reqs : req[r].kind \in PresenceKinds =>
          /\ EventsOf(r) = {}
          /\ req[r].updSeq = 0 /\ req[r].msgSeq = 0
          /\ \A e \in routed : e.id = r => ~e.durable
C31_Step ==
    \A r \in Reqs : (req'[r].kind \in PresenceKinds /\ req'[r] # req[r]) =>
        /\ UNCHANGED <<userSeq, sessionSeq, issued, messages, emitted, created, account>>
        /\ \A s \in Sessions :
              /\ VersionedFields(s)' = VersionedFields(s)
              /\ session'[s].lastMessageAt = session[s].lastMessageAt

\* C31: a step of a session-alive or session-end command leaves the sequence
\* counters, the versioned fields and their versions, the account rows and the
\* stored messages as they were and emits no durable update; what such a command
\* emits is an ephemeral activity event, which has no sequence number field, and
\* the command holds no sequence number.
C31_PresenceFrame == [](C31_State) /\ [][C31_Step]_vars

\* A heartbeat and a session-end have each emitted their ephemeral while a message
\* or a field update took a sequence number.
C31_Witness ==
    /\ \E p, q \in Reqs :
          /\ req[p].kind \in PresenceKinds /\ EphemeralsOf(p) # {}
          /\ req[q].kind \notin PresenceKinds /\ req[q].updSeq # 0

\* The requests of one kind whose conditional write matched the row of session s.
WritesTo(s, kind) == {r \in Reqs : req[r].kind = kind /\ req[r].sid = s /\ req[r].wrote}

C32_State ==
    \A s \in Sessions :
        /\ session[s].metadataVersion = Cardinality(WritesTo(s, "update-metadata"))
        /\ session[s].agentStateVersion = Cardinality(WritesTo(s, "update-state"))
C32_Step ==
    \A r \in Reqs : (req'[r] # req[r] /\ req'[r].kind \in SocketUpdateKinds) =>
        /\ \A s \in Sessions : s # req'[r].sid => session'[s] = session[s]
        /\ req'[r].kind = "update-metadata" =>
              \A s \in Sessions :
                  /\ session'[s].agentState = session[s].agentState
                  /\ session'[s].agentStateVersion = session[s].agentStateVersion
        /\ req'[r].kind = "update-state" =>
              \A s \in Sessions :
                  /\ session'[s].metadata = session[s].metadata
                  /\ session'[s].metadataVersion = session[s].metadataVersion

\* C32: a step of an update-metadata request, whatever its outcome, leaves
\* agentState and agentStateVersion of every session unchanged, a step of an
\* update-state request leaves metadata and metadataVersion unchanged, and
\* neither changes the row of a session other than the one it names; each
\* version counts the writes of its own field only.
C32_FieldsIndependent == [](C32_State) /\ [][C32_Step]_vars

\* Both fields of one session have been written, and an update of each kind was
\* turned away, by a version mismatch or a failure.
C32_Witness ==
    \E s \in Sessions :
        /\ WritesTo(s, "update-metadata") # {} /\ WritesTo(s, "update-state") # {}
        /\ session[s].metadataVersion = 1 /\ session[s].agentStateVersion = 1

\* An update of either field was answered without a write while the other field
\* had been written.
C32_WitnessRejected ==
    \E s \in Sessions, r \in Reqs :
        /\ req[r].kind \in SocketUpdateKinds /\ req[r].sid = s /\ Done(r) /\ ~req[r].wrote
        /\ \E q \in Reqs : req[q].kind \in SocketUpdateKinds /\ req[q].kind # req[r].kind /\ req[q].sid = s /\ req[q].wrote

\* Request r is a session-end command.
IsSessionEnd(r) == req[r].kind = "session-end"
\* data.time of r, limited to the clock reading at r's arrival.
ClampedTime(r) == IF req[r].time > req[r].at THEN req[r].at ELSE req[r].time
\* data.time of r is more than ten minutes before the clock reading at its arrival.
Expired(r) == req[r].time < req[r].at - TenMinutes

C33_State ==
    \A r \in Reqs : IsSessionEnd(r) =>
        /\ req[r].t = ClampedTime(r)
        /\ Expired(r) => Done(r) /\ ~req[r].looked /\ ~req[r].wrote /\ EphemeralsOf(r) = {}
        /\ (~Expired(r) /\ Done(r) /\ ~req[r].failed /\ SessionFound(req[r].sid, req[r].user)) =>
              req[r].wrote /\ Cardinality(EphemeralsOf(r)) = 1
        /\ \A e \in EphemeralsOf(r) :
              req[r].wrote /\ ~e.active /\ e.activeAt = ClampedTime(r) /\ e.sid = req[r].sid /\ e.user = req[r].user
C33_Step ==
    \A r \in Reqs : (req'[r] # req[r] /\ req'[r].kind = "session-end") =>
        IF req'[r].wrote /\ ~req[r].wrote
          THEN /\ session' = [session EXCEPT ![req[r].sid].lastActiveAt = ClampedTime(r),
                                             ![req[r].sid].active = FALSE]
               /\ Cardinality(ephemerals' \ ephemerals) = 1
               /\ ephemerals \subseteq ephemerals'
          ELSE UNCHANGED <<session, ephemerals, routed, activity>>

\* C33: a session-end for a session of the sender whose time is not more than ten
\* minutes before the clock at its arrival writes, unless storage fails,
\* lastActiveAt := min(time, clock at arrival) and active := false on that session
\* alone and emits one ephemeral activity event with active = false and that
\* time; no other step of a session-end changes a session or emits anything, and
\* one whose time is more than ten minutes old ends at once having looked up,
\* written and emitted nothing.
C33_SessionEnd == [](C33_State) /\ [][C33_Step]_vars

\* A session-end from the future has ended an owned session, which now holds the
\* clock reading of its arrival; another one, too old, was dropped.
C33_Witness ==
    \E r, q \in Reqs :
        /\ IsSessionEnd(r) /\ req[r].wrote /\ req[r].time > req[r].at
        /\ session[req[r].sid].lastActiveAt = req[r].at /\ ~session[req[r].sid].active
        /\ \E e \in EphemeralsOf(r) : ~e.active /\ e.activeAt = req[r].at
        /\ IsSessionEnd(q) /\ Done(q) /\ Expired(q)

\* The POST /v1/sessions requests of account u with tag t that were answered with a session.
Creates(u, t) ==
    {r \in Reqs : req[r].kind = "create-session" /\ req[r].user = u /\ req[r].localId = t
                     /\ Done(r) /\ ~req[r].failed}
\* The new-session updates emitted for sessions of account u with tag t.
NewSessionUpdates(u, t) ==
    {e \in emitted : e.kind = "new-session" /\ e.user = u /\ req[e.id].localId = t}

\* C34 (as claimed): whatever the interleaving of the POST /v1/sessions requests of
\* one account with one tag, at most one session with that account and tag
\* exists, all answered requests were given the same session id, and at most one
\* new-session update was emitted, none unless a request created the session.
C34_OneSessionPerTag ==
    \A u \in HttpUsers, t \in Tags :
        /\ Cardinality(SessionsTagged(u, t)) <= 1
        /\ \A p, q \in Creates(u, t) : req[p].replies[1].value = req[q].replies[1].value
        /\ Cardinality(NewSessionUpdates(u, t)) <= 1
        /\ NewSessionUpdates(u, t) # {} => \E r \in Creates(u, t) : req[r].wrote

\* Request r is a page of GET /v2/sessions that was answered with sessions.
IsPage(r) == req[r].kind = "list-sessions" /\ Done(r) /\ ~req[r].failed
                /\ req[r].replies # <<>> /\ req[r].replies[1].result = "sessions"
\* The pages of the walk that page r belongs to, up to r.
Walk(r) == {q \in Reqs : q <= r /\ req[q].kind = "list-sessions" /\ req[q].first = req[r].first}
\* The walk of page r began with a request that carried no cursor.
FromFirstPage(r) == req[req[r].first].cursor = None
\* The ids on page r.
PageIds(r) == {req[r].resultSessions[i] : i \in DOMAIN req[r].resultSessions}
\* The ids the walk has returned up to page r.
Returned(r) == UNION {PageIds(q) : q \in Walk(r)}
\* The sessions of the account of r that pass r's changedSince filter.
Matching(r) ==
    {row.id : row \in {x \in created : /\ x.accountId = req[r].user
                                         /\ (req[r].changedSince = 0 \/ x.updatedAt > req[r].changedSince)}}

\* C35: over an unchanging store, every page of a walk that began without a
\* cursor and followed nextCursor holds at most `limit` sessions in strictly
\* descending id order, all below the ids of the pages before it; the pages so
\* far hold the highest matching sessions of the account, each once and none
\* skipped; hasNext is true exactly when a matching session has not been
\* returned yet, so a walk that ends with hasNext false has returned every
\* matching session; and nextCursor is non-null exactly when hasNext is true.
C35_PagingComplete ==
    \A r \in Reqs : (IsPage(r) /\ FromFirstPage(r)) =>
        /\ Len(req[r].resultSessions) <= req[r].limit
        /\ \A i, j \in DOMAIN req[r].resultSessions :
              i < j => IdRank(req[r].resultSessions[j]) < IdRank(req[r].resultSessions[i])
        /\ \A q \in Walk(r) \ {r} : \A x \in PageIds(q), y \in PageIds(r) : IdRank(y) < IdRank(x)
        /\ Returned(r) \subseteq Matching(r)
        /\ \A x \in Returned(r), y \in Matching(r) \ Returned(r) : IdRank(y) < IdRank(x)
        /\ req[r].hasNext <=> Matching(r) \ Returned(r) # {}
        /\ req[r].nextCursor # "null" <=> req[r].hasNext
        /\ ~req[r].hasNext => Returned(r) = Matching(r)

\* A walk of two pages has ended: the first page had a successor, the second had
\* none, together they hold both matching sessions, and the filter and the
\* account kept other stored sessions out.
C35_Witness ==
    \E r \in Reqs :
        /\ IsPage(r) /\ FromFirstPage(r) /\ req[r].first < r
        /\ ~req[r].hasNext /\ req[req[r].first].hasNext
        /\ Returned(r) = Matching(r) /\ Cardinality(Returned(r)) >= 2
        /\ req[r].changedSince # 0
        /\ \E row \in created : row.accountId = req[r].user /\ row.id \notin Matching(r)
        /\ \E row \in created : row.accountId # req[r].user

\* Request r is a download or a delete of a blob.
IsBlobAccess(r) == req[r].kind \in {"blob-download", "blob-delete"}
\* Request r names a stored blob by the account that uploaded it and the session it
\* was uploaded to.
Entitled(r) ==
    \/ Targets(r, StoredRow.id, StoredRow.sessionId, StoredRow.accountId)
    \/ \E u \in Reqs : Uploaded(u) /\ Targets(r, req[u].blobId, req[u].sid, req[u].user)
\* The Content-Type and size headers of upload r pass the checks made before the
\* session lookup.
HeadersPass(r) == req[r].mimeType \in ALLOWED_MIME_TYPES /\ parseInt(req[r].sizeHeader) > 0

C36_State ==
    /\ \A row \in sessionBlob : SessionFound(row.sessionId, row.accountId)
    /\ \A o \in s3 : \E a \in Accounts, s \in Sessions, b \in {StoredBlobId} \cup {BlobIds[q] : q \in Reqs} :
          SessionFound(s, a) /\ o.key = S3Key(a, s, b)
    /\ \A r \in Reqs :
          /\ (req[r].kind = "blob-upload" /\ ~SessionFound(req[r].sid, req[r].user)) =>
                /\ ~Answered(r, "200")
                /\ (Done(r) /\ ~req[r].failed /\ HeadersPass(r)) => Answered(r, "404")
          /\ (IsBlobAccess(r) /\ ~Entitled(r)) =>
                /\ ~req[r].wrote
                /\ (Done(r) /\ ~req[r].failed) => Answered(r, "404")
          /\ (IsBlobAccess(r) /\ Answered(r, "200")) => Entitled(r)
C36_Step ==
    \A r \in Reqs : (req'[r] # req[r]) =>
        /\ (IsBlobAccess(r)' /\ ~Entitled(r)') => UNCHANGED <<sessionBlob, s3>>
        /\ (req'[r].kind = "blob-upload" /\ ~SessionFound(req'[r].sid, req'[r].user)) =>
              UNCHANGED <<sessionBlob, s3>>

\* C36: blob records and stored objects exist only under sessions of the account
\* that holds them; an upload to a session the requester does not own is never
\* answered 200, is answered 404 when its headers pass, and changes neither the
\* object store nor the blob records; a download or delete that names a blob with
\* an account other than its uploader or a session other than the one it was
\* uploaded to is answered 404 unless storage fails, is never answered 200, and
\* no step of it changes the object store or the blob records.
C36_BlobIsolation == [](C36_State) /\ [][C36_Step]_vars

\* The stored blob was asked for by the other account, or through the other
\* session, and that request got 404 with the blob still in place, while a request
\* of the uploader through the right session was answered 200.
C36_Witness ==
    \E r, q \in Reqs :
        /\ IsBlobAccess(r) /\ req[r].blobId = StoredRow.id /\ ~Entitled(r) /\ Answered(r, "404")
        /\ IsBlobAccess(q) /\ req[q].blobId = StoredRow.id /\ Entitled(q) /\ Answered(q, "200")

=============================================================================
